---- MODULE Spec2Model ----
(***************************************************************************)
(* Model of the skill-matching backend: the dual-window RiotLimiter, the   *)
(* retrying request executor doRequestWithRetry, and the team balancing    *)
(* strategies (alternating split, BalanceTeams, lane-unique split).        *)
(* Time is counted in ticks of 10 ms: time.Second is 100 ticks.            *)
(***************************************************************************)
EXTENDS Integers, Sequences, FiniteSets, TLC

VARIABLES
  now,        \* the wall clock (ticks)
  mu,         \* RiotLimiter.mu: 0 when free, else the caller holding it
  secWin,     \* RiotLimiter.secWin
  twoMin,     \* RiotLimiter.twoMin
  recorded,   \* history: every timestamp ever appended by Wait, in order
  lpc,        \* per caller: position inside Wait
  tnow,       \* per caller: the local `now` read by Wait
  sleepFor,   \* per caller: the local `sleepFor`
  slept,      \* per caller: the local `slept` of the running Wait call
  started     \* number of Wait calls started

limVars == <<now, mu, secWin, twoMin, recorded, lpc, tnow, sleepFor, slept, started>>

VARIABLES
  skipOnLimit, \* doRequestWithRetry: os.Getenv("SKIP") == "true"
  maxRetry,    \* doRequestWithRetry: the maxRetry argument
  backoff,     \* doRequestWithRetry: local backoff
  tries,       \* doRequestWithRetry: local tries
  lastStatus,  \* doRequestWithRetry: local lastStatus
  rpc,         \* "idle" before the call, "loop" inside the for loop, "done" after return
  result,      \* what the call returned: [kind, status]
  counters,    \* Counters: attempts, completed, retries, waitRL, wait429
  lastResp,    \* history: what client.Do returned in the latest iteration
  lastSleep,   \* history: the time.Sleep made by the latest iteration
  seen         \* history: whether a 429 / a transient failure / another status was
               \* observed, the time slept after 429s, the number of backoff sleeps

reqVars == <<skipOnLimit, maxRetry, backoff, tries, lastStatus, rpc, result,
             counters, lastResp, lastSleep, seen>>

VARIABLES
  allPlayerData, \* the aggregated players: [name, skill, lanes] in collection order
  notFound,      \* analyze: how many of the players supplied were skipped on a 404
  bpc,           \* "collected" before balancing, then "analyzed", "failed" or "balanced"
  teamResult,    \* analyze: teamA, teamB, sumA, sumB of the alternating split
  laneUnique,    \* analyze: the lane_unique entry of the result, when present
  balanced       \* BalanceTeams: the returned teamA, teamB

balVars == <<allPlayerData, notFound, bpc, teamResult, laneUnique, balanced>>

VARIABLES
  rankEntry, \* a league entry: [tier, rank, lp] as the provider sent it
  kpc,      \* "entry" before rankScore, "scored" after it, "named" after scoreToRank
  score,    \* what rankScore returned
  named     \* what scoreToRank returned: [tier, rank, lp]

rankVars == <<rankEntry, kpc, score, named>>

VARIABLES
  cli,         \* TRUE: the collection goroutine of the CLI's main; FALSE: the web analyze
  players,     \* the players the loop has still to visit (gameName#tagLine)
  matchLimit,  \* analyze: the matchLimit parameter; CLI: MATCH_LIMIT
  requested,   \* the sample size the run was started with
  apc,         \* position inside the per-player loop body
  loc,         \* the locals of the current iteration
  playerData,  \* the record built by the latest completed iteration
  roster,      \* the names of the records appended to allPlayerData, in order
  aggErr,      \* the error returned by analyze / the fatal exit of the CLI
  hist         \* history of the current iteration: what the upstream answered

aggVars == <<cli, players, matchLimit, requested, apc, loc, playerData, roster, aggErr, hist>>

VARIABLES
  planned,    \* Counters.planned
  completed,  \* Counters.completed
  owed,       \* calls announced by AddPlanned that the loop has still to make
  snapshot    \* what the latest Counters.Snapshot returned

progVars == <<planned, completed, owed, snapshot>>

VARIABLES
  guarded,    \* TRUE: comb tests len(arr) == 0 before it recurses
  callStack,  \* the frames of comb that have not returned, the innermost last
  visited,    \* the acc of every leaf evaluated so far, in order
  leafSeen,   \* the latest leaf: acc, arr and the team B gathered from arr
  fault       \* the runtime panic that ended the program, "" if none

combVars == <<guarded, callStack, visited, leafSeen, fault>>

VARIABLES
  configured,   \* the matchLimit main computed at start: MATCH_LIMIT, or 10
  serverLimit,  \* main's variable matchLimit, which the /analyze handler closes over
  supplied,     \* per request: req.MatchLimit of its body, 0 when absent
  passed,       \* per request: the matchLimit its handler passed to analyze
  hpc,          \* per request: the position of its handler goroutine
  wlim,         \* per request: the RiotLimiter its analyze call made
  wwake,        \* per request: when the time.Sleep of its Wait ends
  wcalls,       \* per request: upstream calls made so far
  wnow,         \* the clock of the web service
  upstream      \* the time of every upstream request of every analyze call, in order

webVars == <<configured, serverLimit, supplied, passed, hpc, wlim, wwake, wcalls, wnow, upstream>>

VARIABLES
  cmu,    \* Counters.mu: "" when free, else the goroutine inside a method
  cnt,    \* Counters: planned, attempts, completed, retries
  cpc,    \* the collecting goroutine: where it is between two Counters calls
  cowed,  \* calls announced by AddPlanned that the collector has still to make
  tpc,    \* the main goroutine at the progress ticker: where it is in Snapshot
  snap    \* the results of Snapshot as far as they are assigned

cntVars == <<cmu, cnt, cpc, cowed, tpc, snap>>

VARIABLES
  laneTally,  \* laneCount of one player: how often each lane was played
  laneRuns    \* main and secondary lanes extracted by each run so far

laneVars == <<laneTally, laneRuns>>

vars == <<limVars, reqVars, balVars, rankVars, aggVars, progVars, combVars, webVars, cntVars, laneVars>>

(***************************************************************************)
(* Program constants (durations in ticks of 10 ms).                        *)
(***************************************************************************)
Second == 100
SecWindow == 100
TwoMinWindow == 12000
SecCap == 20
TwoMinCap == 100
MinSleep == 1
RateFallback == 200
BackoffStart == 100
BackoffCeil == 3000

ExactLimit == 10
LaneRoster == 10
LaneTeam == 5
MinPlayers == 2

\* matchLimit := 10
DefaultMatchLimit == 10

\* queueId of ranked solo matches
SoloQueue == 420

\* time.Second in nanoseconds, the unit of time.Duration
NanosPerSecond == 1000000000

\* the significant binary digits of a float64
MantissaBits == 53

(***************************************************************************)
(* Bounds of the model.                                                    *)
(***************************************************************************)
MaxSmallRoster == 4
NumCallers == 2
MaxCalls == 102
MaxOversleep == 1
MaxTries == 6
MaxNotFound == 2
MaxLP == 100
MaxMatches == 2
MaxPlanned == 6
MaxBatch == 2
NumRequests == 2
MaxWebCalls == 21
MaxCntPlanned == 3
MaxAttempts == 4
MaxLaneCount == 2
NumRuns == 2

Callers == 1..NumCallers

Requests == 1..NumRequests

Max(a, b) == IF a > b THEN a ELSE b

Min(a, b) == IF a < b THEN a ELSE b

(***************************************************************************)
(* RiotLimiter.Wait                                                        *)
(***************************************************************************)
RECURSIVE PruneInclusive(_, _)
PruneInclusive(log, cutoff) ==
  IF Len(log) > 0 /\ log[1] <= cutoff THEN PruneInclusive(Tail(log), cutoff) ELSE log

RECURSIVE Prune(_, _)
\* for len(log) > 0 && log[0].Before(cutoff) { log = log[1:] }
Prune(log, cutoff) ==
  IF Len(log) > 0 /\ log[1] < cutoff THEN Prune(Tail(log), cutoff) ELSE log

\* if len(r.secWin) < 20 && len(r.twoMin) < 100
Allowed(sw, tm) == Len(sw) < SecCap /\ Len(tm) < TwoMinCap

\* wait := 0; if len(log) >= cap { w := log[0].Add(window).Sub(now); if w > wait { wait = w } }
WindowWait(log, cap, window, t) ==
  IF Len(log) >= cap THEN Max(0, log[1] + window - t) ELSE 0

\* the mutant: no 10 ms floor under the computed wait
SleepForNoFloor(sw, tm, t) ==
  Max(WindowWait(sw, SecCap, SecWindow, t), WindowWait(tm, TwoMinCap, TwoMinWindow, t))

\* sleepFor := max(wait1, wait2), and at least 10 ms
SleepFor(sw, tm, t) ==
  Max(MinSleep, Max(WindowWait(sw, SecCap, SecWindow, t),
                    WindowWait(tm, TwoMinCap, TwoMinWindow, t)))

MutexIgnored == TRUE

\* r.mu.Lock() succeeds only while nobody holds the mutex
MutexFree == mu = 0

\* NewRiotLimiter(): empty logs
NewRiotLimiter == [now |-> 0, secWin |-> <<>>, twoMin |-> <<>>, recorded |-> <<>>, slept |-> 0]

RECURSIVE WaitSeq(_)
\* Wait run to completion by a single caller, every time.Sleep lasting
\* exactly sleepFor; L.slept is the value Wait returns.
WaitSeq(L) ==
  LET sw == Prune(L.secWin, L.now - SecWindow)
      tm == Prune(L.twoMin, L.now - TwoMinWindow)
      d  == SleepFor(sw, tm, L.now)
  IN IF Allowed(sw, tm)
       THEN [L EXCEPT !.secWin = Append(sw, L.now), !.twoMin = Append(tm, L.now),
                      !.recorded = Append(L.recorded, L.now)]
       ELSE WaitSeq([L EXCEPT !.secWin = sw, !.twoMin = tm,
                              !.now = L.now + d, !.slept = L.slept + d])

\* a caller enters Wait: var slept time.Duration
WaitCall(c, limit) ==
  /\ lpc[c] = "idle"
  /\ started < limit
  /\ started' = started + 1
  /\ slept' = [slept EXCEPT ![c] = 0]
  /\ lpc' = [lpc EXCEPT ![c] = "lock"]
  /\ UNCHANGED <<reqVars, balVars, rankVars, aggVars, progVars, now, mu, secWin, twoMin, recorded, tnow, sleepFor, combVars, webVars, cntVars, laneVars>>

\* r.mu.Lock()
WaitLock(c) ==
  /\ lpc[c] = "lock"
  /\ MutexFree
  /\ mu' = c
  /\ lpc' = [lpc EXCEPT ![c] = "check"]
  /\ UNCHANGED <<reqVars, balVars, rankVars, aggVars, progVars, now, secWin, twoMin, recorded, tnow, sleepFor, slept, started, combVars, webVars, cntVars, laneVars>>

\* now := time.Now(); prune both windows; test the caps; when over a cap:
\* compute sleepFor, r.mu.Unlock(), and time.Sleep(sleepFor) begins
WaitCheck(c) ==
  /\ lpc[c] = "check"
  /\ tnow' = [tnow EXCEPT ![c] = now]
  /\ secWin' = Prune(secWin, now - SecWindow)
  /\ twoMin' = Prune(twoMin, now - TwoMinWindow)
  /\ IF Allowed(secWin', twoMin')
       THEN /\ lpc' = [lpc EXCEPT ![c] = "record"]
            /\ UNCHANGED <<sleepFor, mu>>
       ELSE /\ lpc' = [lpc EXCEPT ![c] = "sleep"]
            /\ sleepFor' = [sleepFor EXCEPT ![c] = SleepFor(secWin', twoMin', now)]
            /\ mu' = 0
  /\ UNCHANGED <<reqVars, balVars, rankVars, aggVars, progVars, now, recorded, slept, started, combVars, webVars, cntVars, laneVars>>

\* append now to both logs; r.mu.Unlock(); return slept (the locals die)
WaitRecord(c) ==
  /\ lpc[c] = "record"
  /\ secWin' = Append(secWin, tnow[c])
  /\ twoMin' = Append(twoMin, tnow[c])
  /\ recorded' = Append(recorded, tnow[c])
  /\ mu' = 0
  /\ lpc' = [lpc EXCEPT ![c] = "idle"]
  /\ tnow' = [tnow EXCEPT ![c] = 0]
  /\ sleepFor' = [sleepFor EXCEPT ![c] = 0]
  /\ slept' = [slept EXCEPT ![c] = 0]
  /\ UNCHANGED <<reqVars, balVars, rankVars, aggVars, progVars, now, started, combVars, webVars, cntVars, laneVars>>

\* time.Sleep(sleepFor) returns; slept += sleepFor; next iteration
WaitWake(c) ==
  /\ lpc[c] = "sleep"
  /\ now >= tnow[c] + sleepFor[c]
  /\ slept' = [slept EXCEPT ![c] = slept[c] + sleepFor[c]]
  /\ lpc' = [lpc EXCEPT ![c] = "lock"]
  /\ UNCHANGED <<reqVars, balVars, rankVars, aggVars, progVars, now, mu, secWin, twoMin, recorded, tnow, sleepFor, started, combVars, webVars, cntVars, laneVars>>

Runnable(c, limit) ==
  \/ lpc[c] \in {"lock", "check", "record"}
  \/ lpc[c] = "idle" /\ started < limit
  \/ lpc[c] = "sleep" /\ now >= tnow[c] + sleepFor[c]

\* the clock: time passes while every caller is asleep, up to the earliest
\* wake-up time or a little beyond it (time.Sleep sleeps at least sleepFor)
Tick(S, limit, over) ==
  /\ \A c \in S : ~Runnable(c, limit)
  /\ \E c \in S : \E d \in 0..over :
       /\ lpc[c] = "sleep"
       /\ \A o \in S : lpc[o] = "sleep" => tnow[c] + sleepFor[c] <= tnow[o] + sleepFor[o]
       /\ now' = tnow[c] + sleepFor[c] + d
  /\ UNCHANGED <<reqVars, balVars, rankVars, aggVars, progVars, mu, secWin, twoMin, recorded, lpc, tnow, sleepFor, slept, started, combVars, webVars, cntVars, laneVars>>

LimStep(S, limit, over) ==
  \/ \E c \in S : WaitCall(c, limit)
  \/ \E c \in S : WaitLock(c)
  \/ \E c \in S : WaitCheck(c)
  \/ \E c \in S : WaitRecord(c)
  \/ \E c \in S : WaitWake(c)
  \/ Tick(S, limit, over)

(***************************************************************************)
(* rankScore and scoreToRank                                               *)
(***************************************************************************)
NoEntry == [tier |-> "", rank |-> "", lp |-> 0]

\* the lane keys of laneCount: "UNKNOWN" stands for an empty teamPosition
LaneKeys == {"UNKNOWN", "TOP"}

\* the locals of one iteration of the per-player loop, as declared at its top
NewLocals(name) ==
  [name |-> name, maxMatches |-> 0, i |-> 0,
   championCount |-> 0, laneCount |-> [k \in LaneKeys |-> 0],
   rankedCount |-> 0, rankedWin |-> 0, puuidSet |-> {},
   currentRankScore |-> 0, topMastery |-> 0,
   totalScore |-> 0, count |-> 0, todo |-> {}]

\* no record built / no error returned
NoRecord == [name |-> ""]
NoError == [what |-> "", who |-> ""]

\* nothing answered yet for the player of the current iteration
NewHist ==
  [account |-> "", ids |-> 0, sampled |-> <<>>, failed |-> FALSE,
   solo |-> [found |-> FALSE, score |-> 0], mastery |-> <<>>, answers |-> <<>>]

\* a zero time.Duration, in whole seconds and nanoseconds
NoDuration == [sec |-> 0, nsec |-> 0]

\* no candidate evaluated yet
NoLeaf == [acc |-> <<>>, arr |-> <<>>, teamB |-> <<>>]

CombIdle ==
  /\ guarded = TRUE
  /\ callStack = <<>>
  /\ visited = <<>>
  /\ leafSeen = NoLeaf
  /\ fault = ""

\* &RiotLimiter{}
EmptyLimiter == [secWin |-> <<>>, twoMin |-> <<>>]

WebIdle ==
  /\ configured = DefaultMatchLimit
  /\ serverLimit = DefaultMatchLimit
  /\ supplied = [r \in Requests |-> 0]
  /\ passed = [r \in Requests |-> 0]
  /\ hpc = [r \in Requests |-> "done"]
  /\ wlim = [r \in Requests |-> EmptyLimiter]
  /\ wwake = [r \in Requests |-> 0]
  /\ wcalls = [r \in Requests |-> 0]
  /\ wnow = 0
  /\ upstream = <<>>

\* NewCounters(): all counts zero
NoCounts == [planned |-> 0, attempts |-> 0, completed |-> 0, retries |-> 0]

CntIdle ==
  /\ cmu = ""
  /\ cnt = NoCounts
  /\ cpc = "plan"
  /\ cowed = 0
  /\ tpc = "idle"
  /\ snap = [taken |-> FALSE, n |-> NoCounts]

\* the lanes tallied in laneCount: "UNKNOWN" stands for an empty teamPosition
LaneKinds == {"TOP", "JUNGLE", "MIDDLE", "UNKNOWN"}

LaneIdle ==
  /\ laneTally = [k \in LaneKinds |-> 0]
  /\ laneRuns = <<>>

\* NewCounters(): all counts zero, no snapshot taken
ProgIdle ==
  /\ planned = 0
  /\ completed = 0
  /\ owed = 0
  /\ snapshot = [taken |-> FALSE, planned |-> 0, completed |-> 0, eta |-> NoDuration]

AggIdle ==
  /\ cli = FALSE
  /\ players = <<>>
  /\ matchLimit = 0
  /\ requested = 0
  /\ apc = "idle"
  /\ loc = NewLocals("")
  /\ playerData = NoRecord
  /\ roster = <<>>
  /\ aggErr = NoError
  /\ hist = NewHist

RankIdle ==
  /\ rankEntry = NoEntry
  /\ kpc = "idle"
  /\ score = 0
  /\ named = NoEntry

\* Go's integer division truncates toward zero, and the remainder takes the
\* sign of the dividend
GoQuo(a, b) == IF a >= 0 THEN a \div b ELSE 0 - ((0 - a) \div b)

GoRem(a, b) == a - b * GoQuo(a, b)

tierToInt ==
  [t \in {"IRON", "BRONZE", "SILVER", "GOLD", "PLATINUM", "EMERALD", "DIAMOND",
          "MASTER", "GRANDMASTER", "CHALLENGER"} |->
     CASE t = "IRON" -> 1 [] t = "BRONZE" -> 2 [] t = "SILVER" -> 3 [] t = "GOLD" -> 4
       [] t = "PLATINUM" -> 5 [] t = "EMERALD" -> 6 [] t = "DIAMOND" -> 7
       [] t = "MASTER" -> 8 [] t = "GRANDMASTER" -> 9 [] t = "CHALLENGER" -> 10]

intToTier ==
  <<"IRON", "BRONZE", "SILVER", "GOLD", "PLATINUM", "EMERALD", "DIAMOND",
    "MASTER", "GRANDMASTER", "CHALLENGER">>

rankToInt ==
  [r \in {"IV", "III", "II", "I"} |->
     CASE r = "IV" -> 1 [] r = "III" -> 2 [] r = "II" -> 3 [] r = "I" -> 4]

intToRank == <<"IV", "III", "II", "I">>

\* m[key] of a Go map: the zero value when the key is missing
Lookup(m, key, zero) == IF key \in DOMAIN m THEN m[key] ELSE zero

\* return ((t-1)*4+(r-1))*100 + lp
rankScore(tier, rank, lp) ==
  LET t == Lookup(tierToInt, tier, 0)
      r == Lookup(rankToInt, rank, 0)
  IN ((t - 1) * 4 + (r - 1)) * 100 + lp

\* scoreToRank with the divisor of the lp taken from the tier
scoreToRankLpOfTier(s) ==
  [tier |-> Lookup(intToTier, GoQuo(s, 400) + 1, ""),
   rank |-> Lookup(intToRank, GoQuo(GoRem(s, 400), 100) + 1, ""),
   lp   |-> GoRem(s, 400)]

\* tierIdx := score/400 + 1; rankIdx := (score%400)/100 + 1; lp := score % 100
scoreToRank(s) ==
  [tier |-> Lookup(intToTier, GoQuo(s, 400) + 1, ""),
   rank |-> Lookup(intToRank, GoQuo(GoRem(s, 400), 100) + 1, ""),
   lp   |-> GoRem(s, 100)]

\* the entries a league lookup can carry: the ten tiers or none, the four
\* divisions or none, league points from 0 up
Tiers == DOMAIN tierToInt

Divisions == DOMAIN rankToInt

Entries ==
  [tier : Tiers \cup {""}, rank : Divisions \cup {""}, lp : 0..MaxLP]

\* currentRankScore = rankScore(e.Tier, e.Rank, e.LeaguePoints)
RankScoreCall ==
  /\ kpc = "entry"
  /\ score' = rankScore(rankEntry.tier, rankEntry.rank, rankEntry.lp)
  /\ kpc' = "scored"
  /\ UNCHANGED <<rankEntry, named, limVars, reqVars, balVars, aggVars, progVars, combVars, webVars, cntVars, laneVars>>

\* tier, rank, lp := scoreToRank(score)
ScoreToRankCall ==
  /\ kpc = "scored"
  /\ named' = scoreToRank(score)
  /\ kpc' = "named"
  /\ UNCHANGED <<rankEntry, score, limVars, reqVars, balVars, aggVars, progVars, combVars, webVars, cntVars, laneVars>>

\* before any balancing: no roster, no result
NoTeams == [teamA |-> <<>>, teamB |-> <<>>, sumA |-> 0, sumB |-> 0]

NoLaneUnique == [present |-> FALSE, teamA |-> <<>>, teamB |-> <<>>, sumA |-> 0, sumB |-> 0]

BalIdle ==
  /\ allPlayerData = <<>>
  /\ notFound = 0
  /\ bpc = "idle"
  /\ teamResult = NoTeams
  /\ laneUnique = NoLaneUnique
  /\ balanced = NoTeams

(***************************************************************************)
(* doRequestWithRetry                                                      *)
(***************************************************************************)
ReqIdle ==
  /\ skipOnLimit = FALSE
  /\ maxRetry = 0
  /\ backoff = 0
  /\ tries = 0
  /\ lastStatus = 0
  /\ rpc = "idle"
  /\ result = [kind |-> "none", status |-> 0]
  /\ counters = [attempts |-> 0, completed |-> 0, retries |-> 0, waitRL |-> 0, wait429 |-> 0]
  /\ lastResp = [isResp |-> FALSE, status |-> 0, hdr |-> [present |-> FALSE, val |-> <<>>]]
  /\ lastSleep = [kind |-> "none", dur |-> 0]
  /\ seen = [r429 |-> FALSE, transient |-> FALSE, other |-> FALSE,
             rateSlept |-> 0, nBackoff |-> 0]

LimFrom(L) ==
  /\ now = L.now
  /\ secWin = L.secWin
  /\ twoMin = L.twoMin
  /\ recorded = L.recorded
  /\ mu = 0
  /\ lpc = [c \in Callers |-> "idle"]
  /\ tnow = [c \in Callers |-> 0]
  /\ sleepFor = [c \in Callers |-> 0]
  /\ slept = [c \in Callers |-> 0]
  /\ started = 0

\* what client.Do can return: a response with a status and possibly a
\* Retry-After header, or a transport error (resp == nil, err != nil)
NoHeader == [present |-> FALSE, val |-> <<>>]

RetryAfterValues == {<<"0">>, <<"1">>, <<" ", "1">>, <<"x">>}

Headers == {NoHeader} \cup {[present |-> TRUE, val |-> v] : v \in RetryAfterValues}

ServerErrors == {500, 503}

OtherStatuses == {400, 403}

NetErr == [isResp |-> FALSE, status |-> 0, hdr |-> NoHeader]

Resp(st, h) == [isResp |-> TRUE, status |-> st, hdr |-> h]

\* resp.Header.Get("Retry-After"): the empty string when the header is absent
HeaderGet(h) == IF h.present THEN h.val ELSE <<>>

RECURSIVE TrimLeft(_)
TrimLeft(str) == IF str # <<>> /\ Head(str) = " " THEN TrimLeft(Tail(str)) ELSE str

RECURSIVE TrimRight(_)
TrimRight(str) ==
  IF str # <<>> /\ str[Len(str)] = " " THEN TrimRight(SubSeq(str, 1, Len(str) - 1)) ELSE str

\* strings.TrimSpace
TrimSpace(str) == TrimRight(TrimLeft(str))

DigitVal ==
  ("0" :> 0) @@ ("1" :> 1) @@ ("2" :> 2) @@ ("3" :> 3) @@ ("4" :> 4) @@
  ("5" :> 5) @@ ("6" :> 6) @@ ("7" :> 7) @@ ("8" :> 8) @@ ("9" :> 9)

RECURSIVE DigitsValue(_, _)
DigitsValue(str, acc) ==
  IF str = <<>> THEN acc ELSE DigitsValue(Tail(str), acc * 10 + DigitVal[Head(str)])

\* strconv.Atoi: an optional sign and at least one decimal digit
Atoi(str) ==
  LET signed == str # <<>> /\ Head(str) \in {"+", "-"}
      digits == IF signed THEN Tail(str) ELSE str
      valid  == digits # <<>> /\ \A i \in DOMAIN digits : digits[i] \in DOMAIN DigitVal
  IN [ok |-> valid,
      v  |-> IF ~valid THEN 0
             ELSE IF signed /\ Head(str) = "-" THEN 0 - DigitsValue(digits, 0)
             ELSE DigitsValue(digits, 0)]

\* the `wait` of the 429 branch before the fallback is applied
HintWait(h) ==
  LET ra == TrimSpace(HeaderGet(h))
  IN IF ra # <<>> /\ Atoi(ra).ok THEN Atoi(ra).v * Second ELSE 0

\* if wait == 0 { wait = 2 * time.Second }
RateLimitWait(h) == IF HintWait(h) = 0 THEN RateFallback ELSE HintWait(h)

\* if backoff < 30*time.Second { backoff *= 2 }
NextBackoff(b) == IF b < BackoffCeil THEN 2 * b ELSE b

TerminalOnly200(st) == st = 200

\* statuses for which counters.RecordCompleted() is called and resp returned
Terminal(st) == st \in {200, 404}

\* the call begins: skipOnLimit read, backoff := 1 s, tries := 0
ReqFresh(skip, mr) ==
  /\ skipOnLimit = skip
  /\ maxRetry = mr
  /\ backoff = BackoffStart
  /\ tries = 0
  /\ lastStatus = 0
  /\ rpc = "loop"
  /\ result = [kind |-> "none", status |-> 0]
  /\ counters = [attempts |-> 0, completed |-> 0, retries |-> 0, waitRL |-> 0, wait429 |-> 0]
  /\ lastResp = NetErr
  /\ lastSleep = [kind |-> "none", dur |-> 0]
  /\ seen = [r429 |-> FALSE, transient |-> FALSE, other |-> FALSE,
             rateSlept |-> 0, nBackoff |-> 0]

\* slept := limiter.Wait() by the one goroutine that makes requests
Acquired ==
  WaitSeq([now |-> now, secWin |-> secWin, twoMin |-> twoMin,
           recorded |-> recorded, slept |-> 0])

\* the head of one loop iteration: limiter.Wait(), AddRateWait, RecordAttempt,
\* client.Do returning r, tries++
Iterate(L, r) ==
  /\ rpc = "loop"
  /\ tries < MaxTries
  /\ secWin' = L.secWin
  /\ twoMin' = L.twoMin
  /\ recorded' = L.recorded
  /\ tries' = tries + 1
  /\ lastResp' = r
  /\ lastStatus' = IF r.isResp THEN r.status ELSE lastStatus
  /\ UNCHANGED <<mu, lpc, tnow, sleepFor, slept, started, skipOnLimit, maxRetry, balVars, rankVars, aggVars, progVars, combVars, webVars, cntVars, laneVars>>

\* counters after the iteration: c completions, k retries, w of 429 wait
Counted(L, c, k, w) ==
  counters' = [attempts  |-> counters.attempts + 1,
               completed |-> counters.completed + c,
               retries   |-> counters.retries + k,
               waitRL    |-> counters.waitRL + L.slept,
               wait429   |-> counters.wait429 + Max(0, w)]

\* the history of observed failures after a response of class cls
Seen(cls) == [seen EXCEPT ![cls] = TRUE]

\* return from doRequestWithRetry
Return(L, kind, st, sn) ==
  /\ rpc' = "done"
  /\ result' = [kind |-> kind, status |-> st]
  /\ now' = L.now
  /\ lastSleep' = [kind |-> "none", dur |-> 0]
  /\ seen' = sn
  /\ UNCHANGED backoff

\* time.Sleep(d), then the next iteration
SleepAndLoop(L, kind, d, b, sn) ==
  /\ rpc' = "loop"
  /\ now' = L.now + Max(0, d)
  /\ lastSleep' = [kind |-> kind, dur |-> d]
  /\ backoff' = b
  /\ seen' = IF kind = "rate" THEN [sn EXCEPT !.rateSlept = @ + Max(0, d)]
                              ELSE [sn EXCEPT !.nBackoff = @ + 1]
  /\ UNCHANGED result

ExhaustedLate(mr, t) == mr > 0 /\ t > mr

ExhaustedNever(mr, t) == FALSE

\* if maxRetry > 0 && tries >= maxRetry { break }
Exhausted(mr, t) == mr > 0 /\ t >= mr

RetryOrFailNoSkip(L, sn) ==
  IF Exhausted(maxRetry, tries') THEN Return(L, "err", lastStatus', sn)
  ELSE SleepAndLoop(L, "backoff", backoff, NextBackoff(backoff), sn)

\* the bounded-retry tail shared by the 5xx branch and the fall-through path
RetryOrFail(L, sn) ==
  IF skipOnLimit THEN Return(L, "nil", 0, sn)
  ELSE IF Exhausted(maxRetry, tries') THEN Return(L, "err", lastStatus', sn)
  ELSE SleepAndLoop(L, "backoff", backoff, NextBackoff(backoff), sn)

RateLimitedBounded(L, wait, sn) ==
  IF skipOnLimit THEN Return(L, "nil", 0, sn)
  ELSE IF Exhausted(maxRetry, tries') THEN Return(L, "err", lastStatus', sn)
  ELSE SleepAndLoop(L, "rate", wait, backoff, sn)

RateLimitedNoSkip(L, wait, sn) == SleepAndLoop(L, "rate", wait, backoff, sn)

\* the end of the 429 branch: give up when SKIP=true, else sleep and retry
RateLimited(L, wait, sn) ==
  IF skipOnLimit THEN Return(L, "nil", 0, sn)
  ELSE SleepAndLoop(L, "rate", wait, backoff, sn)

\* err == nil && resp.StatusCode == 200, or resp.StatusCode == 404
ReqTerminal ==
  \E st \in {200, 404} :
    LET L == Acquired IN
      /\ Iterate(L, Resp(st, NoHeader))
      /\ IF Terminal(st)
           THEN Counted(L, 1, 0, 0) /\ Return(L, "resp", st, seen)
           ELSE Counted(L, 0, 0, 0) /\ RetryOrFail(L, Seen("other"))

\* resp.StatusCode == 429
ReqRateLimited ==
  \E h \in Headers :
    LET L == Acquired
        wait == RateLimitWait(h)
    IN /\ Iterate(L, Resp(429, h))
       /\ Counted(L, 0, 1, wait)
       /\ RateLimited(L, wait, Seen("r429"))

\* resp.StatusCode >= 500 && resp.StatusCode < 600
ReqServerError ==
  \E st \in ServerErrors :
    LET L == Acquired IN
      /\ Iterate(L, Resp(st, NoHeader))
      /\ Counted(L, 0, 0, 0)
      /\ RetryOrFail(L, Seen("transient"))

\* any other status: resp.Body.Close(), then the fall-through path
ReqOtherStatus ==
  \E st \in OtherStatuses :
    LET L == Acquired IN
      /\ Iterate(L, Resp(st, NoHeader))
      /\ Counted(L, 0, 0, 0)
      /\ RetryOrFail(L, Seen("other"))

\* client.Do failed: resp == nil
ReqNetErr ==
  LET L == Acquired IN
    /\ Iterate(L, NetErr)
    /\ Counted(L, 0, 0, 0)
    /\ RetryOrFail(L, Seen("transient"))

MaxRetryValues == (0 - 1)..MaxTries

ReqInit ==
  /\ BalIdle
  /\ RankIdle
  /\ AggIdle
  /\ ProgIdle
  /\ LaneIdle
  /\ CntIdle
  /\ WebIdle
  /\ CombIdle
  /\ LimFrom(NewRiotLimiter)
  /\ \E skip \in BOOLEAN : \E mr \in MaxRetryValues : ReqFresh(skip, mr)

ReqNext ==
  \/ ReqTerminal
  \/ ReqRateLimited
  \/ ReqServerError
  \/ ReqOtherStatus
  \/ ReqNetErr

SpecRetry == ReqInit /\ [][ReqNext]_vars

(***************************************************************************)
(* Team balancing: the alternating split and the lane-unique split of      *)
(* analyze, and BalanceTeams.                                              *)
(***************************************************************************)
RECURSIVE SumSkill(_)
\* the sum of the skill scores of a sequence of players
SumSkill(ps) == IF ps = <<>> THEN 0 ELSE Head(ps).skill + SumSkill(Tail(ps))

Abs(x) == IF x < 0 THEN 0 - x ELSE x

RECURSIVE DescendingOrders(_, _)
\* sort.Slice(..., skill[i] > skill[j]): the index orders of ps that are
\* descending by skill; the sort is not stable, so players of equal skill may
\* come out in any order
DescendingOrders(ps, S) ==
  IF S = {} THEN {<<>>}
  ELSE UNION {{<<i>> \o rest : rest \in DescendingOrders(ps, S \ {i})} :
               i \in {j \in S : \A k \in S : ps[j].skill >= ps[k].skill}}

\* the roster left as it was collected, the sort left out
NotReordered(ps, order) == ps

Reordered(ps, order) == [k \in 1..Len(ps) |-> ps[order[k]]]

\* the players whose position is in S, in the order of ps
Pick(ps, S) ==
  LET F[k \in 0..Len(ps)] ==
        IF k = 0 THEN <<>> ELSE IF k \in S THEN Append(F[k - 1], ps[k]) ELSE F[k - 1]
  IN F[Len(ps)]

\* the split with the parity of team A taken from the 1-based position
AlternatingSplitOffByOne(ps) ==
  LET a == Pick(ps, {k \in DOMAIN ps : k % 2 = 0})
      b == Pick(ps, {k \in DOMAIN ps : (k - 1) % 2 # 0})
  IN [teamA |-> a, teamB |-> b, sumA |-> SumSkill(a), sumB |-> SumSkill(b)]

\* for i, p := range allPlayerData { if i%2 == 0 { teamA ... } else { teamB ... } }
AlternatingSplit(ps) ==
  LET a == Pick(ps, {k \in DOMAIN ps : (k - 1) % 2 = 0})
      b == Pick(ps, {k \in DOMAIN ps : (k - 1) % 2 # 0})
  IN [teamA |-> a, teamB |-> b, sumA |-> SumSkill(a), sumB |-> SumSkill(b)]

RECURSIVE AssignLanesFirstChoice(_, _, _, _)
\* every member given the first of its main lanes, taken or not
AssignLanesFirstChoice(ps, members, used, roles) ==
  IF members = <<>> THEN [ok |-> TRUE, roles |-> roles]
  ELSE LET lanes == ps[Head(members)].lanes
       IN IF lanes = <<>> THEN [ok |-> FALSE, roles |-> roles]
          ELSE AssignLanesFirstChoice(ps, Tail(members), used \cup {lanes[1]},
                                      Append(roles, lanes[1]))

RECURSIVE AssignLanes(_, _, _, _)
\* for every member in order: the first lane of its main_lanes not yet used in
\* the team; ok is FALSE as soon as a member finds none
AssignLanes(ps, members, used, roles) ==
  IF members = <<>> THEN [ok |-> TRUE, roles |-> roles]
  ELSE LET lanes == ps[Head(members)].lanes
           free  == {k \in DOMAIN lanes : lanes[k] \notin used}
       IN IF free = {} THEN [ok |-> FALSE, roles |-> roles]
          ELSE LET k == CHOOSE x \in free : \A y \in free : x <= y
               IN AssignLanes(ps, Tail(members), used \cup {lanes[k]}, Append(roles, lanes[k]))

\* the increasing sequence of the members of a set of indices
Ascending(S) ==
  LET top == IF S = {} THEN 0 ELSE CHOOSE m \in S : \A x \in S : x <= m
      F[k \in 0..top] ==
        IF k = 0 THEN <<>> ELSE IF k \in S THEN Append(F[k - 1], k) ELSE F[k - 1]
  IN F[top]

\* the leaves comb visits: acc is a choice of 5 of the 10 indices; arr, at the
\* leaf, is what is left of the index slice after the last chosen index
CombLeaves == {acc \in SUBSET (1..LaneRoster) : Cardinality(acc) = LaneTeam}

LeafRest(acc) == {i \in 1..LaneRoster : \A a \in acc : i > a}

\* the place of a leaf in comb's depth-first order (take arr[0] before skipping it)
LeafOrder(acc) ==
  LET a == Ascending(acc)
      F[k \in 0..Len(a)] == IF k = 0 THEN 0 ELSE F[k - 1] * (LaneRoster + 1) + a[k]
  IN F[Len(a)]

\* one leaf of comb: lane assignment of acc and of the rest, and the difference
Leaf(ps, acc) ==
  LET a  == Ascending(acc)
      b  == Ascending(LeafRest(acc))
      ra == AssignLanes(ps, a, {}, <<>>)
      rb == AssignLanes(ps, b, {}, <<>>)
      sA == SumSkill([k \in DOMAIN a |-> ps[a[k]]])
      sB == SumSkill([k \in DOMAIN b |-> ps[b[k]]])
  IN [ok |-> ra.ok /\ rb.ok, d |-> Abs(sA - sB), bestA |-> a, bestB |-> b,
      rolesA |-> ra.roles, rolesB |-> rb.roles, order |-> LeafOrder(acc)]

\* comb(indices, 5, []int{}): the first leaf, in visiting order, among the
\* feasible leaves of least difference (d < minDiff); ok is FALSE when no
\* leaf is feasible
CombBest(ps) ==
  LET leaves   == {Leaf(ps, acc) : acc \in CombLeaves}
      feasible == {l \in leaves : l.ok}
      diffs    == {l.d : l \in feasible}
      minDiff  == CHOOSE d \in diffs : \A e \in diffs : d <= e
      least    == {l \in feasible : l.d = minDiff}
  IN IF feasible = {} THEN [ok |-> FALSE]
     ELSE CHOOSE l \in least : \A m \in least : l.order <= m.order

\* the lane_unique entry: present when len(bestA) == 5 && len(bestB) == 5
LaneUniqueSplit(ps) ==
  IF Len(ps) # LaneRoster THEN NoLaneUnique
  ELSE LET best == CombBest(ps)
       IN IF ~best.ok \/ Len(best.bestA) # LaneTeam \/ Len(best.bestB) # LaneTeam
            THEN NoLaneUnique
            ELSE LET entry(idx, role) == [name |-> ps[idx].name, role |-> role, skill |-> ps[idx].skill]
                     outA == [k \in 1..LaneTeam |-> entry(best.bestA[k], best.rolesA[k])]
                     outB == [k \in 1..LaneTeam |-> entry(best.bestB[k], best.rolesB[k])]
                 IN [present |-> TRUE, teamA |-> outA, teamB |-> outB,
                     sumA |-> SumSkill(outA), sumB |-> SumSkill(outB)]

\* if len(players) < 2 { return nil, fmt.Errorf(...) }: players are the ones
\* supplied, those later skipped on a 404 included
TooFewSupplied(found, skipped) == Len(found) + skipped < MinPlayers

\* analyze: the test of the supplied roster, then (the players found being
\* collected in allPlayerData) the sort, the alternating split and the
\* lane-unique split
Analyze ==
  /\ bpc = "collected"
  /\ IF TooFewSupplied(allPlayerData, notFound)
       THEN /\ bpc' = "failed"
            /\ UNCHANGED <<allPlayerData, teamResult, laneUnique>>
       ELSE /\ bpc' = "analyzed"
            /\ \E order \in DescendingOrders(allPlayerData, DOMAIN allPlayerData) :
                 LET sorted == Reordered(allPlayerData, order)
                 IN /\ allPlayerData' = sorted
                    /\ teamResult' = AlternatingSplit(sorted)
                    /\ laneUnique' = LaneUniqueSplit(sorted)
  /\ UNCHANGED <<notFound, balanced, limVars, reqVars, rankVars, aggVars, progVars, combVars, webVars, cntVars, laneVars>>

\* every mask, the test len(teamA) != len(teamB) left out
MaskTeamsAnySize(ps) == SUBSET DOMAIN ps

\* BalanceTeams, n <= 10: over the masks with len(teamA) == len(teamB), the
\* first mask (counting up from 0) of least difference; bit i-1 of the mask
\* puts player i on team A
MaskTeams(ps) == {S \in SUBSET DOMAIN ps : 2 * Cardinality(S) = Len(ps)}

MaskValue(S) ==
  LET F[k \in 0..ExactLimit] == IF k = 0 THEN 0 ELSE F[k - 1] + (IF k \in S THEN 2 ^ (k - 1) ELSE 0)
  IN F[ExactLimit]

TeamsOf(ps, S) == [teamA |-> Pick(ps, S), teamB |-> Pick(ps, DOMAIN ps \ S)]

\* the sum of the scores of the players whose index is in S
ScoreSum(ps, S) ==
  LET F[k \in 0..Len(ps)] == IF k = 0 THEN 0 ELSE F[k - 1] + (IF k \in S THEN ps[k].skill ELSE 0)
  IN F[Len(ps)]

\* diff := math.Abs(sumA - sumB)
MaskDiff(ps, S) == Abs(ScoreSum(ps, S) - ScoreSum(ps, DOMAIN ps \ S))

\* difference first, then the greater mask value: the mask `diff <= bestDiff`
\* would keep
MaskRankLastWins(ps, S) == MaskDiff(ps, S) * (2 ^ ExactLimit) + (2 ^ ExactLimit - 1 - MaskValue(S))

\* masks compared by difference first and by mask value second: the least
\* one is the mask `if diff < bestDiff` keeps when counting up from 0
MaskRank(ps, S) == MaskDiff(ps, S) * (2 ^ ExactLimit) + MaskValue(S)

LeastOf(ranks) == CHOOSE r \in ranks : \A q \in ranks : r <= q

ExactBest(ps, cands, least) == CHOOSE S \in cands : MaskRank(ps, S) = least

\* the exhaustive search; found is len(bestA) > 0
ExactSplit(ps) ==
  LET cands == MaskTeams(ps)
      best  == ExactBest(ps, cands, LeastOf({MaskRank(ps, S) : S \in cands}))
  IN [found |-> best # {}, mask |-> best]

RECURSIVE GreedyFillTiesToB(_, _, _, _, _)
GreedyFillTiesToB(arr, a, b, sumA, sumB) ==
  IF arr = <<>> THEN [teamA |-> a, teamB |-> b]
  ELSE IF sumA < sumB
    THEN GreedyFillTiesToB(Tail(arr), Append(a, Head(arr)), b, sumA + Head(arr).skill, sumB)
    ELSE GreedyFillTiesToB(Tail(arr), a, Append(b, Head(arr)), sumA, sumB + Head(arr).skill)

RECURSIVE GreedyFill(_, _, _, _, _)
\* for _, a := range arr { if sumA <= sumB { teamA ... } else { teamB ... } }
GreedyFill(arr, a, b, sumA, sumB) ==
  IF arr = <<>> THEN [teamA |-> a, teamB |-> b]
  ELSE IF sumA <= sumB
    THEN GreedyFill(Tail(arr), Append(a, Head(arr)), b, sumA + Head(arr).skill, sumB)
    ELSE GreedyFill(Tail(arr), a, Append(b, Head(arr)), sumA, sumB + Head(arr).skill)

\* BalanceTeams(players, model), the score of a player being model.Predict(p)
BalanceTeams ==
  /\ bpc = "collected"
  /\ LET ps == allPlayerData
         exact == IF Len(ps) <= ExactLimit /\ MaskTeams(ps) # {} THEN ExactSplit(ps)
                  ELSE [found |-> FALSE, mask |-> {}]
     IN IF exact.found
          THEN LET t == TeamsOf(ps, exact.mask)
               IN balanced' = [teamA |-> t.teamA, teamB |-> t.teamB,
                               sumA |-> SumSkill(t.teamA), sumB |-> SumSkill(t.teamB)]
          ELSE \E order \in DescendingOrders(ps, DOMAIN ps) :
                 LET t == GreedyFill(Reordered(ps, order), <<>>, <<>>, 0, 0)
                 IN balanced' = [teamA |-> t.teamA, teamB |-> t.teamB,
                                 sumA |-> SumSkill(t.teamA), sumB |-> SumSkill(t.teamB)]
  /\ bpc' = "balanced"
  /\ UNCHANGED <<allPlayerData, notFound, teamResult, laneUnique, limVars, reqVars, rankVars, aggVars, progVars, combVars, webVars, cntVars, laneVars>>

(***************************************************************************)
(* The rosters balanced: every roster of up to MaxSmallRoster players, and *)
(* ten-player rosters around one in which each lane is the first choice of *)
(* two players.                                                            *)
(***************************************************************************)
Skills == {0, 1000, 1200, 1300, 1500}

LaneNames == <<"TOP", "JUNGLE", "MIDDLE", "BOTTOM", "UTILITY">>

\* main_lanes: the (at most two, distinct) most played lanes of a player
LaneLists ==
  {<<>>} \cup {<<LaneNames[i]>> : i \in DOMAIN LaneNames}
         \cup UNION {{<<LaneNames[i], LaneNames[j]>> : j \in DOMAIN LaneNames \ {i}} :
                       i \in DOMAIN LaneNames}

SmallRosters ==
  UNION {{[i \in 1..n |-> [name |-> i, skill |-> f[i], lanes |-> <<"MIDDLE">>]] :
            f \in [1..n -> Skills]} : n \in 0..MaxSmallRoster}

TenSkillProfiles ==
  {[i \in 1..LaneRoster |-> 1000 + i],
   [i \in 1..LaneRoster |-> IF i <= 2 THEN 3000 * i ELSE 100 + i]}

VariedPlayers == {1, 7}

TenRosters ==
  {[i \in 1..LaneRoster |->
      [name |-> i, skill |-> sk[i],
       lanes |-> IF i \in VariedPlayers THEN v[i] ELSE <<LaneNames[((i - 1) % 5) + 1]>>]] :
     sk \in TenSkillProfiles, v \in [VariedPlayers -> LaneLists]}

\* how many further players were supplied and skipped on a 404: any number up
\* to MaxNotFound for the rosters around the minimum of 2, none for the others
SkippedCounts(found) == IF Len(found) <= MinPlayers THEN 0..MaxNotFound ELSE {0}

BalInit ==
  /\ LimFrom(NewRiotLimiter)
  /\ ReqIdle
  /\ RankIdle
  /\ AggIdle
  /\ ProgIdle
  /\ LaneIdle
  /\ CntIdle
  /\ WebIdle
  /\ CombIdle
  /\ allPlayerData \in SmallRosters \cup TenRosters
  /\ notFound \in SkippedCounts(allPlayerData)
  /\ bpc = "collected"
  /\ teamResult = NoTeams
  /\ laneUnique = NoLaneUnique
  /\ balanced = NoTeams

BalNext == Analyze \/ BalanceTeams

SpecBalance == BalInit /\ [][BalNext]_vars

(***************************************************************************)
(* One caller, a fresh limiter: Wait called back to back MaxCalls times.   *)
(***************************************************************************)
LimInit == LimFrom(NewRiotLimiter) /\ ReqIdle /\ BalIdle /\ RankIdle /\ AggIdle /\ ProgIdle /\ CombIdle /\ WebIdle /\ CntIdle /\ LaneIdle

LimNext == LimStep({1}, MaxCalls, MaxOversleep)

SpecLimiter == LimInit /\ [][LimNext]_vars

(***************************************************************************)
(* Several callers sharing one fresh limiter; every time.Sleep lasts       *)
(* exactly sleepFor.                                                       *)
(***************************************************************************)
SharedNext == LimStep(Callers, MaxCalls, 0)

SpecShared == LimInit /\ [][SharedNext]_vars

\* number of recorded timestamps inside the closed window [a, a + w]
CountIn(a, w) == Cardinality({i \in DOMAIN recorded : recorded[i] >= a /\ recorded[i] <= a + w})

\* C1: at no time do more than 20 recorded timestamps lie in a window of 1 s,
\* nor more than 100 in a window of 120 s (windows taken closed, so that
\* calls exactly one window apart count as inside the same window).
C1_WindowCaps ==
  \A i \in DOMAIN recorded :
    /\ CountIn(recorded[i], SecWindow) <= SecCap
    /\ CountIn(recorded[i], TwoMinWindow) <= TwoMinCap

\* C1 witness: more than 100 calls were admitted, and the caller has just
\* arrived exactly 120 s after the oldest of 100 logged calls and was made to wait.
C1_Witness ==
  /\ Len(recorded) >= TwoMinCap
  /\ lpc[1] = "sleep"
  /\ Len(twoMin) = TwoMinCap
  /\ tnow[1] = twoMin[1] + TwoMinWindow

InCritical == {c \in Callers : lpc[c] \in {"check", "record"}}

IsStatus(r, S) == r.isResp /\ r.status \in S

\* every response so far was a 5xx or a transport error
AllTransient ==
  /\ tries >= 1
  /\ ~seen.r429
  /\ ~seen.other
  /\ ~IsStatus(lastResp, {200, 404})

\* every response before the latest one was a 429
OnlyRateLimitedBefore == ~seen.transient /\ ~seen.other

FailsExhausted ==
  /\ rpc = "loop" => tries < maxRetry
  /\ rpc = "done" =>
       /\ result.kind = "err"
       /\ tries = maxRetry
       /\ counters.attempts = maxRetry
       /\ result.status = lastStatus
       /\ lastResp.isResp => result.status = lastResp.status

C4_RateLimitAlwaysRetried ==
  (~skipOnLimit /\ tries >= 1 /\ OnlyRateLimitedBefore) =>
    /\ result.kind \notin {"err", "nil"}
    /\ IsStatus(lastResp, {429}) =>
         /\ rpc = "loop"
         /\ lastSleep = [kind |-> "rate", dur |-> RateLimitWait(lastResp.hdr)]
    /\ IsStatus(lastResp, {200}) =>
         /\ rpc = "done"
         /\ result = [kind |-> "resp", status |-> 200]
         /\ tries = counters.retries + 1
         /\ seen.rateSlept = counters.wait429
         /\ seen.rateSlept >= counters.retries * Second
         /\ now >= seen.rateSlept

\* C4 witness: maxAttempts is 1, three 429s were answered, then a 200.
C4_Witness ==
  /\ ~skipOnLimit
  /\ maxRetry = 1
  /\ OnlyRateLimitedBefore
  /\ counters.retries = 3
  /\ rpc = "done"
  /\ result = [kind |-> "resp", status |-> 200]

ProviderHint(h) == Atoi(TrimSpace(h.val))

\* C5 as written: the wait before retrying a 429 is the Retry-After value in
\* seconds whenever the header is present, and the 2 s fallback only when the
\* header is absent.
C5_Original ==
  (~skipOnLimit /\ IsStatus(lastResp, {429})) =>
    /\ lastSleep.kind = "rate"
    /\ (lastResp.hdr.present /\ ProviderHint(lastResp.hdr).ok) =>
         lastSleep.dur = ProviderHint(lastResp.hdr).v * Second
    /\ ~lastResp.hdr.present => lastSleep.dur = RateFallback
    /\ (lastResp.hdr.present /\ lastSleep.dur = RateFallback) =>
         /\ ProviderHint(lastResp.hdr).ok
         /\ ProviderHint(lastResp.hdr).v * Second = RateFallback

\* C6: with SKIP=true a 429 ends the call at once with (nil, nil): nothing is
\* slept and no further attempt is made.
C6_SkipGivesUp ==
  (skipOnLimit /\ IsStatus(lastResp, {429})) =>
    /\ rpc = "done"
    /\ result = [kind |-> "nil", status |-> 0]
    /\ lastSleep.kind = "none"
    /\ seen.rateSlept = 0
    /\ now = recorded[Len(recorded)]
    /\ counters.attempts = 1
    /\ Len(recorded) = 1

\* C6 witness: SKIP=true and a 429 carrying a Retry-After hint was received.
C6_Witness ==
  /\ skipOnLimit
  /\ IsStatus(lastResp, {429})
  /\ lastResp.hdr.present
  /\ rpc = "done"

\* C7 as written: backoff sleeps start at 1 s, double, and none is longer
\* than 30 s.
C7_Original ==
  lastSleep.kind = "backoff" =>
    /\ seen.nBackoff = 1 => lastSleep.dur = BackoffStart
    /\ lastSleep.dur <= BackoffCeil

\* C8 as written: a status other than 200, 404, 429 and 5xx fails the call
\* after that one attempt, with no backoff sleep and no retry.
C8_Original ==
  IsStatus(lastResp, OtherStatuses) =>
    /\ rpc = "done"
    /\ result.kind = "err"
    /\ lastSleep.kind = "none"

\* C9: a 200 or a 404 ends the call at once: the response is returned with
\* no error, nothing is slept after it, no attempt follows, and exactly one
\* completion is recorded.
C9_TerminalReturns ==
  IsStatus(lastResp, {200, 404}) =>
    /\ rpc = "done"
    /\ result = [kind |-> "resp", status |-> lastResp.status]
    /\ lastSleep.kind = "none"
    /\ now = recorded[Len(recorded)]
    /\ counters.completed = 1
    /\ counters.attempts = tries
    /\ Len(recorded) = tries

\* C9 witness: a 404 answered the third attempt of a call whose maxAttempts is 1.
C9_Witness ==
  /\ maxRetry = 1
  /\ tries = 3
  /\ IsStatus(lastResp, {404})
  /\ rpc = "done"
  /\ result.kind = "resp"

(***************************************************************************)
(* Properties of the balancing strategies (SpecBalance).                   *)
(***************************************************************************)
Names(team) == {team[k].name : k \in DOMAIN team}

RosterNames == {allPlayerData[k].name : k \in DOMAIN allPlayerData}

SkillOf(nm) == allPlayerData[CHOOSE k \in DOMAIN allPlayerData : allPlayerData[k].name = nm].skill

RECURSIVE SkillByName(_)
SkillByName(team) == IF team = <<>> THEN 0 ELSE SkillOf(Head(team).name) + SkillByName(Tail(team))

\* a reported partition: the teams are disjoint, cover the roster with each
\* player once, and the sums are those of the members' skill scores
IsPartition(r) ==
  /\ Names(r.teamA) \cap Names(r.teamB) = {}
  /\ Names(r.teamA) \cup Names(r.teamB) = RosterNames
  /\ Cardinality(Names(r.teamA)) = Len(r.teamA)
  /\ Cardinality(Names(r.teamB)) = Len(r.teamB)
  /\ Len(r.teamA) + Len(r.teamB) = Len(allPlayerData)
  /\ r.sumA = SkillByName(r.teamA)
  /\ r.sumB = SkillByName(r.teamB)

\* C10: every partition returned by a balancing strategy (alternating split,
\* lane-unique split, BalanceTeams) is disjoint, covers the roster with every
\* player exactly once, and reports the sums of its members' skill scores.
C10_PartitionsComplete ==
  /\ bpc = "analyzed" => IsPartition(teamResult)
  /\ (bpc = "analyzed" /\ laneUnique.present) => IsPartition(laneUnique)
  /\ bpc = "balanced" => IsPartition(balanced)

\* C10 witness: a ten-player roster for which analyze reports a lane-unique split.
C10_Witness ==
  /\ bpc = "analyzed"
  /\ Len(allPlayerData) = LaneRoster
  /\ laneUnique.present
  /\ Len(teamResult.teamA) = LaneTeam

\* the skill sum of the players among the first k of seq that a team holds
PrefixSum(seq, team, k) ==
  LET F[j \in 0..k] ==
        IF j = 0 THEN 0
        ELSE F[j - 1] + (IF seq[j].name \in Names(team) THEN seq[j].skill ELSE 0)
  IN F[k]

\* r is what the lower-sum rule gives on some descending order of the roster:
\* each player went to team A exactly when team A's running sum was not above
\* team B's, and each team lists its players in that order
FollowsLowerSum(r) ==
  \E order \in DescendingOrders(allPlayerData, DOMAIN allPlayerData) :
    LET seq == Reordered(allPlayerData, order)
        onA == {k \in DOMAIN seq : seq[k].name \in Names(r.teamA)}
    IN /\ \A k \in DOMAIN seq :
            k \in onA <=> PrefixSum(seq, r.teamA, k - 1) <= PrefixSum(seq, r.teamB, k - 1)
       /\ r.teamA = Pick(seq, onA)
       /\ r.teamB = Pick(seq, DOMAIN seq \ onA)

\* the roster is in descending order of skill and r deals it out by turns,
\* the first player to team A
DealtByTurns(r) ==
  /\ \A k \in DOMAIN allPlayerData :
       k > 1 => allPlayerData[k - 1].skill >= allPlayerData[k].skill
  /\ Len(r.teamA) = (Len(allPlayerData) + 1) \div 2
  /\ Len(r.teamB) = Len(allPlayerData) \div 2
  /\ \A k \in DOMAIN r.teamA : r.teamA[k] = allPlayerData[2 * k - 1]
  /\ \A k \in DOMAIN r.teamB : r.teamB[k] = allPlayerData[2 * k]

\* BalanceTeams took its greedy path: no mask gave a non-empty team A
GreedyPathTaken == bpc = "balanced" /\ (Len(allPlayerData) % 2 = 1 \/ Len(allPlayerData) = 0)

SplitSum(S) == SumSkill(Pick(allPlayerData, S))

\* the equal-size splits of the roster, each given by the positions of one team
EqualSplits == {S \in SUBSET DOMAIN allPlayerData : 2 * Cardinality(S) = Len(allPlayerData)}

EvenRoster ==
  /\ Len(allPlayerData) % 2 = 0
  /\ Len(allPlayerData) >= 2
  /\ Len(allPlayerData) <= ExactLimit

\* C12: on a roster of even size n, 2 <= n <= 10, BalanceTeams returns two
\* teams of n/2 players whose score-sum difference is the least over all
\* splits into two teams of n/2.
C12_ExactMinimum ==
  (bpc = "balanced" /\ EvenRoster) =>
    /\ 2 * Len(balanced.teamA) = Len(allPlayerData)
    /\ 2 * Len(balanced.teamB) = Len(allPlayerData)
    /\ \A S \in EqualSplits :
         Abs(SkillByName(balanced.teamA) - SkillByName(balanced.teamB))
           <= Abs(SplitSum(S) - SplitSum(DOMAIN allPlayerData \ S))

\* C12 witness: ten players whose scores sum to an odd number were split
\* five a side with the sums one apart.
C12_Witness ==
  /\ bpc = "balanced"
  /\ Len(allPlayerData) = ExactLimit
  /\ Len(balanced.teamA) = 5
  /\ Abs(balanced.sumA - balanced.sumB) = 1

\* the five-versus-five splits of a ten-player roster, by the positions of team A
FiveSplits == {S \in SUBSET (1..LaneRoster) : Cardinality(S) = LaneTeam}

\* the in-roster-order, first-unused-preferred-role assignment succeeds for
\* the team at positions S and for the team of the other five
FeasibleSplit(S) ==
  /\ AssignLanes(allPlayerData, Ascending(S), {}, <<>>).ok
  /\ AssignLanes(allPlayerData, Ascending((1..LaneRoster) \ S), {}, <<>>).ok

SplitDiff(S) == Abs(SplitSum(S) - SplitSum((1..LaneRoster) \ S))

LaneUniqueReported ==
  /\ bpc = "analyzed"
  /\ Len(allPlayerData) = LaneRoster
  /\ laneUnique.present

\* C13 as written: a reported role-unique split has the least |sumA - sumB|
\* among the feasible ones of the 252 five-versus-five splits.
C13_Original ==
  LaneUniqueReported =>
    \A S \in FiveSplits :
      FeasibleSplit(S) => Abs(laneUnique.sumA - laneUnique.sumB) <= SplitDiff(S)

\* the main lanes of the player of a given name, as a set
LanesOf(nm) ==
  LET p == allPlayerData[CHOOSE k \in DOMAIN allPlayerData : allPlayerData[k].name = nm]
  IN {p.lanes[i] : i \in DOMAIN p.lanes}

\* five members, each with a role from its own main lanes, no role twice
RolesUnique(team) ==
  /\ Len(team) = LaneTeam
  /\ \A k \in DOMAIN team : team[k].role \in LanesOf(team[k].name)
  /\ \A j, k \in DOMAIN team : j # k => team[j].role # team[k].role

\* C14: a reported role-unique result has exactly 5 members per team, every
\* role is one of its member's main lanes, and no role is given to two
\* members of the same team.
C14_RolesUnique ==
  (bpc = "analyzed" /\ laneUnique.present) =>
    /\ RolesUnique(laneUnique.teamA)
    /\ RolesUnique(laneUnique.teamB)

\* C14 witness: a role-unique result in which a member of team A plays its
\* second main lane, the first being taken by a teammate.
C14_Witness ==
  /\ LaneUniqueReported
  /\ \E k \in DOMAIN laneUnique.teamA :
       LET p == allPlayerData[CHOOSE i \in DOMAIN allPlayerData :
                                allPlayerData[i].name = laneUnique.teamA[k].name]
       IN Len(p.lanes) = 2 /\ laneUnique.teamA[k].role = p.lanes[2]

RECURSIVE HasDistinctRoles(_, _)
\* the members (positions in the roster) can be given pairwise distinct roles,
\* each from its own main lanes, none of them in used
HasDistinctRoles(members, used) ==
  \/ members = {}
  \/ LET m == CHOOSE x \in members : TRUE
         lanes == allPlayerData[m].lanes
     IN \E i \in DOMAIN lanes :
          /\ lanes[i] \notin used
          /\ HasDistinctRoles(members \ {m}, used \cup {lanes[i]})

\* some five-versus-five split gives both teams pairwise distinct roles
PerfectPartitionExists ==
  /\ \A k \in DOMAIN allPlayerData : allPlayerData[k].lanes # <<>>
  /\ \E S \in FiveSplits :
       /\ HasDistinctRoles(S, {})
       /\ HasDistinctRoles((1..LaneRoster) \ S, {})

NoCollisions(team) == \A j, k \in DOMAIN team : j # k => team[j].role # team[k].role

\* C15 as written: on a 10-player roster for which a perfect partition
\* exists, role-unique mode returns a split without role collisions.
C15_Original ==
  (bpc = "analyzed" /\ Len(allPlayerData) = LaneRoster /\ PerfectPartitionExists) =>
    /\ laneUnique.present
    /\ NoCollisions(laneUnique.teamA)
    /\ NoCollisions(laneUnique.teamB)

\* C16 as written: no role-unique result is reported exactly when none of
\* the 252 five-versus-five splits is feasible, and the base partition is
\* returned all the same.
C16_Original ==
  (bpc = "analyzed" /\ Len(allPlayerData) = LaneRoster) =>
    /\ laneUnique.present <=> (\E S \in FiveSplits : FeasibleSplit(S))
    /\ Len(teamResult.teamA) = LaneTeam
    /\ Len(teamResult.teamB) = LaneTeam

\* fewer than 2 players reached the balancing step
ShortRoster == Len(allPlayerData) < MinPlayers

\* C17 as written: whenever fewer than 2 players reach the balancing step it
\* fails with InsufficientRoster and returns no partition, in analyze (also
\* when the roster shrank because not-found players were skipped) and in
\* BalanceTeams alike.
C17_Original ==
  (ShortRoster /\ bpc # "collected") =>
    /\ bpc = "failed"
    /\ teamResult = NoTeams
    /\ balanced = NoTeams

\* the largest single skill score of the roster (0 for an empty roster)
LargestSkill ==
  IF allPlayerData = <<>> THEN 0
  ELSE LET all == {allPlayerData[k].skill : k \in DOMAIN allPlayerData}
       IN CHOOSE m \in all : \A x \in all : x <= m

NonNegativeSkills == \A k \in DOMAIN allPlayerData : allPlayerData[k].skill >= 0

WithinLargest(r) == Abs(SkillByName(r.teamA) - SkillByName(r.teamB)) <= LargestSkill

\* C18: on a roster of at least 2 players with non-negative skill scores,
\* the split of analyze and the greedy path of BalanceTeams both end with
\* |sumA - sumB| no greater than the largest single skill score.
C18_GreedyBound ==
  (Len(allPlayerData) >= MinPlayers /\ NonNegativeSkills) =>
    /\ bpc = "analyzed" => WithinLargest(teamResult)
    /\ GreedyPathTaken => WithinLargest(balanced)

\* C18 witness: three players, analyze's split ends exactly the largest
\* score apart.
C18_Witness ==
  /\ bpc = "analyzed"
  /\ Len(allPlayerData) = 3
  /\ LargestSkill > 0
  /\ teamResult.sumA - teamResult.sumB = LargestSkill

\* the sample roster: four players with scores 1500, 1300, 1200, 1000, in
\* that order
SampleScores == <<1500, 1300, 1200, 1000>>

SampleRoster == [i \in 1..4 |-> [name |-> i, skill |-> SampleScores[i], lanes |-> <<"MIDDLE">>]]

\* the skill scores of a team, in the team's order
ScoresOf(team) == [k \in DOMAIN team |-> SkillOf(team[k].name)]

ScoreSet(team) == {SkillOf(team[k].name) : k \in DOMAIN team}

RankInit ==
  /\ LimFrom(NewRiotLimiter)
  /\ ReqIdle
  /\ BalIdle
  /\ AggIdle
  /\ ProgIdle
  /\ LaneIdle
  /\ CntIdle
  /\ WebIdle
  /\ CombIdle
  /\ rankEntry \in Entries
  /\ kpc = "entry"
  /\ score = 0
  /\ named = NoEntry

RankNext == RankScoreCall \/ ScoreToRankCall

SpecRank == RankInit /\ [][RankNext]_vars

\* a tier, a division and league points in 0..99
ValidEntry ==
  /\ rankEntry.tier \in Tiers
  /\ rankEntry.rank \in Divisions
  /\ rankEntry.lp \in 0..99

\* C20: scoreToRank(rankScore(t, d, lp)) = (t, d, lp) for each of the 10
\* tiers, each of the divisions IV, III, II, I and every lp in 0..99.
C20_RoundTrip == (kpc = "named" /\ ValidEntry) => named = rankEntry

\* C20 witness: CHALLENGER I with 99 league points, the highest score, was
\* scored and named back.
C20_Witness ==
  /\ kpc = "named"
  /\ rankEntry = [tier |-> "CHALLENGER", rank |-> "I", lp |-> 99]
  /\ score = 3999
  /\ named = rankEntry

\* the top three tiers, whose entries may carry no division
ApexTiers == {"MASTER", "GRANDMASTER", "CHALLENGER"}

\* a valid rank entry: a tier with one of the four divisions, or a top tier
\* with the division absent; league points in 0..99
ValidRank(e) ==
  /\ e.tier \in Tiers
  /\ e.lp \in 0..99
  /\ \/ e.rank \in Divisions
     \/ e.rank = "" /\ e.tier \in ApexTiers

\* C21 as written: rankScore gives every valid entry, those of the top three
\* tiers without a division included, a non-negative score, and no two
\* distinct valid entries the same score.
C21_Original ==
  (kpc = "scored" /\ ValidRank(rankEntry)) =>
    /\ score >= 0
    /\ \A e \in Entries :
         (ValidRank(e) /\ e # rankEntry) => rankScore(e.tier, e.rank, e.lp) # score

(***************************************************************************)
(* Per-player feature aggregation: the body of the player loop of analyze  *)
(* (web service) and of the collection goroutine of the CLI's main.  Each  *)
(* upstream call is one step; its answer is what doRequestWithRetry hands  *)
(* to its caller.  The lane-champion lists are left out.                   *)
(***************************************************************************)

\* what a doRequestWithRetry call hands back: a 200 response, a 404 response,
\* an error (retries exhausted), or (nil, nil) in SKIP mode
Outcomes == {"ok", "notfound", "failed", "skipped"}

\* the answers to one call: a payload comes with a 200 response only
Replies(payloads) ==
  [o : {"ok"}, body : payloads] \cup [o : Outcomes \ {"ok"}, body : {<<>>}]

\* the queue ids a match detail may carry
Queues == {420, 400, 430, 450, 490, 1700, 440}

\* the two queue tests of the detail pass: neither `continue` is taken
QueueCounted(q) ==
  /\ ~(q = 1700 \/ q = 490 \/ q = 450)
  /\ ~(q # 400 /\ q # 430 /\ q # SoloQueue)

PlayerNames == <<"a#1", "b#2">>

\* account.PUUID of a player
PuuidOf(name) == IF name = "a#1" THEN "pa" ELSE "pb"

\* the participant lists a match detail may carry; the player is one of them
PartSets(self) == {{self}, {self, "p1"}}

\* a match detail as decoded: queueId, the participants' puuids, and the
\* player's own teamPosition and win flag
Details(self) ==
  [queue : Queues, parts : PartSets(self), lane : {"", "TOP"}, win : BOOLEAN]

SoloEntryA == [queueType |-> "RANKED_SOLO_5x5", tier |-> "GOLD", rank |-> "IV", lp |-> 0]
SoloEntryB == [queueType |-> "RANKED_SOLO_5x5", tier |-> "SILVER", rank |-> "II", lp |-> 75]
FlexEntry == [queueType |-> "RANKED_FLEX_SR", tier |-> "PLATINUM", rank |-> "I", lp |-> 10]

\* the league entry lists the rank endpoint may answer
RankLists == {<<>>, <<SoloEntryA>>, <<FlexEntry, SoloEntryB>>}

\* the loop over the entries: the first RANKED_SOLO_5x5 entry is scored
RECURSIVE SoloScore(_)
SoloScore(rd) ==
  IF rd = <<>> THEN [found |-> FALSE, score |-> 0]
  ELSE IF Head(rd).queueType = "RANKED_SOLO_5x5"
       THEN [found |-> TRUE, score |-> rankScore(Head(rd).tier, Head(rd).rank, Head(rd).lp)]
       ELSE SoloScore(Tail(rd))

\* the championPoints lists the mastery endpoint may answer
MasteryLists == {<<>>, <<800, 2700>>, <<800, 2700, 900, 1999>>}

\* sort.Slice(masteries, ChampionPoints descending): the points in descending order
SortedPoints(m) ==
  LET n == Len(m)
      perms == {p \in [1..n -> 1..n] : \A a, b \in 1..n : a # b => p[a] # p[b]}
      p == CHOOSE q \in perms : \A a \in 1..n : \A b \in 1..n : a < b => m[q[a]] >= m[q[b]]
  IN [k \in 1..n |-> m[p[k]]]

\* for i := 0; i < 3 && i < len(masteries); i++ { topMastery += ... } after the sort
TopMastery(m) ==
  LET s == SortedPoints(m)
      RECURSIVE firstK(_, _)
      firstK(t, k) == IF k = 0 \/ t = <<>> THEN 0 ELSE Head(t) + firstK(Tail(t), k - 1)
  IN firstK(s, 3)

\* the mutant: the mean rounded up
AvgRankScoreCeil(total, count) == IF count > 0 THEN GoQuo(total + count - 1, count) ELSE 0

\* avgRankScore: 0 unless count > 0, else totalScore / count
AvgRankScore(total, count) == IF count > 0 THEN GoQuo(total, count) ELSE 0

\* the mutant: the rank score weighted once
SkillScoreUnweighted(cur, avg, top) == cur + avg + GoQuo(top, 1000)

\* skillScore := currentRankScore*2 + avgRankScore + topMastery/1000
SkillScore(cur, avg, top) == cur * 2 + avg + GoQuo(top, 1000)

\* the playerData map of a finished iteration (the fields the balancing reads
\* and the score's ingredients)
Features(l) ==
  LET avg == AvgRankScore(l.totalScore, l.count)
  IN [name |-> l.name,
      skill_score |-> SkillScore(l.currentRankScore, avg, l.topMastery),
      current_rank_score |-> l.currentRankScore,
      avg_match_rank_score |-> avg,
      mastery_top3 |-> l.topMastery]

\* where the player loop stands once an iteration is over
NextPos(ps) == IF ps = <<>> THEN "collected" ELSE "account"

\* a loop with nothing (left) to visit is passed through: the detail pass
\* leads to the rank lookup, the CLI's participant pass to the participants'
\* rank lookups, and those to the building of the record
Settle(pos, l) ==
  LET done == l.i >= l.maxMatches
      l1 == IF pos = "collect" /\ done THEN [l EXCEPT !.todo = l.puuidSet] ELSE l
      p1 == IF pos = "detail" /\ done THEN "rank"
            ELSE IF pos = "collect" /\ done THEN "prank"
            ELSE pos
      p2 == IF p1 = "prank" /\ l1.todo = {} THEN "append" ELSE p1
  IN [pos |-> p2, loc |-> l1]

\* the loop body goes on at pos; when every lookup is done the record is
\* built and appended to allPlayerData
Step(pos, l, h, err, ps) ==
  LET s == Settle(pos, l)
  IN /\ players' = ps
     /\ loc' = s.loc
     /\ hist' = h
     /\ aggErr' = err
     /\ IF s.pos = "append"
        THEN /\ playerData' = Features(s.loc)
             /\ roster' = Append(roster, s.loc.name)
             /\ apc' = NextPos(ps)
        ELSE /\ playerData' = NoRecord
             /\ roster' = roster
             /\ apc' = s.pos

\* log.Fatalf of the CLI
Fatal == [what |-> "fatal", who |-> ""]

\* hist with the outcome o of one more call recorded
Noted(h, o) == [h EXCEPT !.failed = @ \/ o = "failed"]

\* 1) account by riot-id
AccountLookup ==
  /\ apc = "account"
  /\ \E o \in Outcomes :
       LET name == Head(players)
           ps == Tail(players)
           l == NewLocals(name)
           h == Noted([NewHist EXCEPT !.account = o], o)
       IN IF o = "ok" THEN Step("matchlist", l, h, NoError, ps)
          ELSE IF cli
          THEN IF o = "skipped" THEN Step(NextPos(ps), l, h, NoError, ps)
               ELSE Step("fatal", l, h, Fatal, ps)
          ELSE IF o = "notfound" THEN Step(NextPos(ps), l, h, NoError, ps)
               ELSE Step("returned", l, h,
                         [what |-> "account lookup failed", who |-> name], ps)
  /\ UNCHANGED <<cli, requested, matchLimit, limVars, reqVars, balVars, rankVars, progVars, combVars, webVars, cntVars, laneVars>>

\* 2) match list by puuid, and the number of matches to sample
MatchList ==
  /\ apc = "matchlist"
  /\ \E r \in Replies(0..MaxMatches) :
       LET o == r.o
           n == IF o = "ok" THEN r.body ELSE 0
           h == [Noted(hist, o) EXCEPT !.ids = n]
           clamped == IF matchLimit <= 0 \/ matchLimit > n THEN n ELSE matchLimit
           maxMatches == IF n < matchLimit THEN n ELSE matchLimit
       IN IF o = "ok"
          THEN IF cli
               THEN /\ matchLimit' = matchLimit
                    /\ Step("detail", [loc EXCEPT !.maxMatches = maxMatches], h, NoError, players)
               ELSE /\ matchLimit' = clamped
                    /\ Step("detail", [loc EXCEPT !.maxMatches = clamped], h, NoError, players)
          ELSE /\ matchLimit' = matchLimit
               /\ IF cli
                  THEN IF o = "skipped" THEN Step(NextPos(players), loc, h, NoError, players)
                       ELSE Step("fatal", loc, h, Fatal, players)
                  ELSE Step("returned", loc, h,
                            [what |-> "failed to get matches", who |-> PuuidOf(loc.name)],
                            players)
  /\ UNCHANGED <<cli, requested, limVars, reqVars, balVars, rankVars, progVars, combVars, webVars, cntVars, laneVars>>

\* 3) one match detail of the first pass: the queue filter and the tallies
MatchDetail ==
  /\ apc = "detail"
  /\ \E r \in Replies(Details(PuuidOf(loc.name))) :
       LET o == r.o
           d == r.body
           counted == o = "ok" /\ QueueCounted(d.queue)
           class == IF o # "ok" THEN "none" ELSE IF counted THEN "counted" ELSE "excluded"
           lane == IF counted /\ d.lane # "" THEN d.lane ELSE "UNKNOWN"
           solo == counted /\ d.queue = SoloQueue
           l1 == [loc EXCEPT !.i = @ + 1]
           l2 == IF counted
                 THEN [l1 EXCEPT !.championCount = @ + 1,
                                 !.laneCount[lane] = @ + 1,
                                 !.rankedCount = IF solo THEN @ + 1 ELSE @,
                                 !.rankedWin = IF solo /\ d.win THEN @ + 1 ELSE @,
                                 !.puuidSet = IF cli THEN @ ELSE @ \cup d.parts]
                 ELSE l1
           h == Noted([hist EXCEPT !.sampled = Append(@, class)], o)
       IN IF cli /\ o = "failed" THEN Step("fatal", loc, h, Fatal, players)
          ELSE Step("detail", l2, h, NoError, players)
  /\ UNCHANGED <<cli, requested, matchLimit, limVars, reqVars, balVars, rankVars, progVars, combVars, webVars, cntVars, laneVars>>

\* rank by puuid (current)
RankLookup ==
  /\ apc = "rank"
  /\ \E r \in Replies(RankLists) :
       LET o == r.o
           s == IF o = "ok" THEN SoloScore(r.body) ELSE [found |-> FALSE, score |-> 0]
           l == [loc EXCEPT !.currentRankScore = IF s.found THEN s.score ELSE 0]
           h == Noted([hist EXCEPT !.solo = s], o)
       IN IF cli /\ o = "skipped" THEN Step(NextPos(players), loc, h, NoError, players)
          ELSE IF cli /\ o # "ok" THEN Step("fatal", loc, h, Fatal, players)
          ELSE Step("mastery", l, h, NoError, players)
  /\ UNCHANGED <<cli, requested, matchLimit, limVars, reqVars, balVars, rankVars, progVars, combVars, webVars, cntVars, laneVars>>

\* mastery by puuid (top 3 sum)
Mastery ==
  /\ apc = "mastery"
  /\ \E r \in Replies(MasteryLists) :
       LET o == r.o
           got == IF o = "ok" THEN r.body ELSE <<>>
           l == [loc EXCEPT !.topMastery = TopMastery(got)]
           h == Noted([hist EXCEPT !.mastery = got], o)
       IN IF cli
          THEN IF o = "ok" THEN Step("collect", [l EXCEPT !.i = 0], h, NoError, players)
               ELSE IF o = "skipped" THEN Step(NextPos(players), loc, h, NoError, players)
               ELSE Step("fatal", loc, h, Fatal, players)
          ELSE Step("prank", [l EXCEPT !.todo = l.puuidSet], h, NoError, players)
  /\ UNCHANGED <<cli, requested, matchLimit, limVars, reqVars, balVars, rankVars, progVars, combVars, webVars, cntVars, laneVars>>

\* CLI only: one match detail of the second pass, which collects the participants
CollectParticipants ==
  /\ apc = "collect"
  /\ \E r \in Replies(PartSets(PuuidOf(loc.name))) :
       LET o == r.o
           l1 == [loc EXCEPT !.i = @ + 1]
           l2 == IF o = "ok" THEN [l1 EXCEPT !.puuidSet = @ \cup r.body] ELSE l1
           h == Noted(hist, o)
       IN IF o = "failed" THEN Step("fatal", loc, h, Fatal, players)
          ELSE Step("collect", l2, h, NoError, players)
  /\ UNCHANGED <<cli, requested, matchLimit, limVars, reqVars, balVars, rankVars, progVars, combVars, webVars, cntVars, laneVars>>

\* the rank lookup of one participant of puuidSet (a Go map: any order)
ParticipantRank ==
  /\ apc = "prank"
  /\ \E p \in loc.todo : \E r \in Replies(RankLists) :
       LET o == r.o
           s == IF o = "ok" THEN SoloScore(r.body) ELSE [found |-> FALSE, score |-> 0]
           l == [loc EXCEPT !.todo = @ \ {p},
                            !.totalScore = IF s.found THEN @ + s.score ELSE @,
                            !.count = IF s.found THEN @ + 1 ELSE @]
           h == Noted([hist EXCEPT !.answers = (p :> s) @@ @], o)
       IN Step("prank", l, h, NoError, players)
  /\ UNCHANGED <<cli, requested, matchLimit, limVars, reqVars, balVars, rankVars, progVars, combVars, webVars, cntVars, laneVars>>

AggInit ==
  /\ LimFrom(NewRiotLimiter)
  /\ ReqIdle
  /\ BalIdle
  /\ RankIdle
  /\ ProgIdle
  /\ LaneIdle
  /\ CntIdle
  /\ WebIdle
  /\ CombIdle
  /\ cli \in BOOLEAN
  /\ players = PlayerNames
  /\ matchLimit \in 1..MaxMatches
  /\ requested = matchLimit
  /\ apc = "account"
  /\ loc = NewLocals("")
  /\ playerData = NoRecord
  /\ roster = <<>>
  /\ aggErr = NoError
  /\ hist = NewHist

AggNext ==
  \/ AccountLookup
  \/ MatchList
  \/ MatchDetail
  \/ RankLookup
  \/ Mastery
  \/ CollectParticipants
  \/ ParticipantRank

SpecAggregate == AggInit /\ [][AggNext]_vars

\* an iteration has just built and appended its record
Aggregated == playerData # NoRecord

\* the sum of the points at the positions I of a mastery list
RECURSIVE SumAt(_, _)
SumAt(m, I) ==
  IF I = {} THEN 0
  ELSE LET k == CHOOSE x \in I : TRUE IN m[k] + SumAt(m, I \ {k})

\* the sums of every choice of three mastery values (of all of them when
\* fewer than three exist)
ThreeSums(m) ==
  LET k == IF Len(m) < 3 THEN Len(m) ELSE 3
  IN {SumAt(m, I) : I \in {J \in SUBSET (1..Len(m)) : Cardinality(J) = k}}

\* C22: for every aggregated player, skill_score is
\* 2 * current_rank_score + avg_match_rank_score + (mastery_top3 div 1000),
\* mastery_top3 is the sum of the three largest mastery values received (of
\* all of them when fewer than three exist), and current_rank_score is 0 when
\* the player has no ranked-solo entry.
C22_SkillScore ==
  Aggregated =>
    /\ playerData.skill_score =
         2 * playerData.current_rank_score + playerData.avg_match_rank_score
           + (playerData.mastery_top3 \div 1000)
    /\ playerData.mastery_top3 \in ThreeSums(hist.mastery)
    /\ \A x \in ThreeSums(hist.mastery) : x <= playerData.mastery_top3
    /\ playerData.current_rank_score = (IF hist.solo.found THEN hist.solo.score ELSE 0)

\* a player with a ranked-solo entry, four mastery values whose three largest
\* are not the first three, and ranked participants has been aggregated
C22_Witness ==
  /\ Aggregated
  /\ hist.solo.found
  /\ Len(hist.mastery) = 4
  /\ playerData.mastery_top3 = 5599
  /\ playerData.avg_match_rank_score > 0
  /\ playerData.skill_score = 2 * playerData.current_rank_score + playerData.avg_match_rank_score + 5

\* every match sampled for the current player was delivered and had an
\* excluded queue (arena, quickplay, ARAM or any queue but 420, 400, 430)
OnlyExcludedSampled ==
  /\ hist.sampled # <<>>
  /\ \A k \in 1..Len(hist.sampled) : hist.sampled[k] = "excluded"

\* the player's tallies and participant set hold nothing
NothingCounted ==
  /\ loc.championCount = 0
  /\ \A k \in LaneKeys : loc.laneCount[k] = 0
  /\ loc.rankedCount = 0
  /\ loc.rankedWin = 0
  /\ loc.puuidSet = {}
  /\ loc.totalScore = 0 /\ loc.count = 0

\* C23 as written: a sampled match of an excluded queue contributes nothing
\* to the player's features, neither to the champion, role and ranked-win
\* tallies nor to the participant set behind the average match rank score.
C23_Original == OnlyExcludedSampled => NothingCounted

\* the participants whose rank lookup delivered a ranked-solo entry
Ranked == {p \in DOMAIN hist.answers : hist.answers[p].found}

\* the sum of the rank scores of the participants in S
RECURSIVE ScoreTotal(_)
ScoreTotal(S) ==
  IF S = {} THEN 0
  ELSE LET p == CHOOSE x \in S : TRUE IN hist.answers[p].score + ScoreTotal(S \ {p})

\* C24: avg_match_rank_score is the truncated integer mean of rankScore over
\* the distinct participants that have a ranked-solo entry: every participant
\* of the participant set is looked up exactly once however many sampled
\* matches list them, those without an entry are in neither the sum nor the
\* count, and the value is 0 when no participant qualifies.
C24_AverageRank ==
  Aggregated =>
    /\ DOMAIN hist.answers = loc.puuidSet
    /\ loc.count = Cardinality(Ranked)
    /\ loc.totalScore = ScoreTotal(Ranked)
    /\ playerData.avg_match_rank_score =
         (IF Ranked = {} THEN 0 ELSE ScoreTotal(Ranked) \div Cardinality(Ranked))

\* the web loop sampled two counted matches listing the same two participants,
\* both ranked with different scores: the mean 1137.5 was cut to 1137
C24_Witness ==
  /\ Aggregated
  /\ ~cli
  /\ hist.sampled = <<"counted", "counted">>
  /\ loc.puuidSet = {PuuidOf(loc.name), "p1"}
  /\ Ranked = loc.puuidSet
  /\ loc.totalScore = 2275
  /\ playerData.avg_match_rank_score = 1137

\* the names in the roster collected so far
RosterNamesSoFar == {roster[k] : k \in 1..Len(roster)}

\* C25 as written: when the account lookup of a player answers 404, the
\* player is dropped without a record and the run goes on with the remaining
\* players; no error ends the run.
C25_Original ==
  hist.account = "notfound" =>
    /\ apc \in {"account", "collected"}
    /\ aggErr = NoError
    /\ loc.name \notin RosterNamesSoFar

\* C26 as written: when a call made while aggregating a player ends in
\* failure (retries exhausted), analyze stops, returns the failure with the
\* player's gameName#tagLine attached, and the player is not in the roster.
C26_Original ==
  (~cli /\ hist.failed) =>
    /\ apc = "returned"
    /\ aggErr.who = loc.name
    /\ loc.name \notin RosterNamesSoFar

(***************************************************************************)
(* One caller on a fresh limiter with a clock that keeps going: the        *)
(* goroutine is scheduled whenever it can run, and time passes whenever it *)
(* is asleep.                                                              *)
(***************************************************************************)
SpecLimiterFair == LimInit /\ [][LimNext]_vars /\ WF_vars(LimNext)

\* C27: a single caller of Wait is never starved: every Wait call that has
\* been entered returns after finitely many sleeps, and every sleep taken
\* while waiting lasts at least 10 ms.
C27_WaitReturns ==
  /\ (lpc[1] # "idle") ~> (lpc[1] = "idle")
  /\ [](lpc[1] = "sleep" => sleepFor[1] >= MinSleep)

\* a Wait call that slept out the one-second window and then the 10 ms
\* floor is about to return
C27_Witness ==
  /\ lpc[1] = "record"
  /\ slept[1] >= SecWindow + MinSleep

(***************************************************************************)
(* Counters and the remaining-time estimate of Counters.Snapshot.          *)
(* float64 values are kept as mantissa bits (least significant first) and  *)
(* a binary exponent, so that each multiplication rounds as IEEE-754       *)
(* round-to-nearest-even does; a time.Duration is kept as whole seconds    *)
(* and nanoseconds.                                                        *)
(***************************************************************************)
\* the base of the digits ("limbs") a mantissa is kept in, least significant first
LimbBase == 2^10

RECURSIVE Limbs(_)
\* a natural number as limbs
Limbs(n) == IF n = 0 THEN <<>> ELSE <<n % LimbBase>> \o Limbs(n \div LimbBase)

RECURSIVE ColSum(_, _, _, _)
\* the sum of the limb products a[i] * b[k + 1 - i] for i = from..Len(a)
ColSum(a, b, k, from) ==
  IF from > Len(a) THEN 0
  ELSE (IF k + 1 - from \in 1..Len(b) THEN a[from] * b[k + 1 - from] ELSE 0)
       + ColSum(a, b, k, from + 1)

RECURSIVE Carry(_, _)
\* the columns brought below LimbBase, the carry c moving up
Carry(cols, c) ==
  IF cols = <<>> THEN Limbs(c)
  ELSE <<(Head(cols) + c) % LimbBase>> \o Carry(Tail(cols), (Head(cols) + c) \div LimbBase)

\* the exact product of two mantissas
MulLimbs(a, b) ==
  IF a = <<>> \/ b = <<>> THEN <<>>
  ELSE Carry([k \in 1..(Len(a) + Len(b) - 1) |-> ColSum(a, b, k, 1)], 0)

\* binary digit j (1 = least significant) of a mantissa
BitAt(a, j) == (a[((j - 1) \div 10) + 1] \div 2^((j - 1) % 10)) % 2

\* the position of the most significant 1, 0 for zero
BitLen(a) ==
  LET ones == {j \in 1..(10 * Len(a)) : BitAt(a, j) = 1}
  IN IF ones = {} THEN 0 ELSE CHOOSE j \in ones : \A i \in ones : i <= j

\* the binary digits from..to of a mantissa, least significant first
BitsFrom(a, from, to) == [j \in 1..(to - from + 1) |-> BitAt(a, from + j - 1)]

\* binary digits plus one
Increment(bits) ==
  LET zeros == {j \in 1..Len(bits) : bits[j] = 0}
  IN IF zeros = {} THEN [j \in 1..(Len(bits) + 1) |-> IF j = Len(bits) + 1 THEN 1 ELSE 0]
     ELSE LET p == CHOOSE j \in zeros : \A i \in zeros : j <= i
          IN [j \in 1..Len(bits) |-> IF j < p THEN 0 ELSE IF j = p THEN 1 ELSE bits[j]]

RECURSIVE LimbOf(_, _, _)
\* limb i of binary digits: the digits 10(i-1)+1 .. 10i, from digit t on
LimbOf(bits, i, t) ==
  IF t > 9 THEN 0
  ELSE (IF 10 * (i - 1) + t + 1 <= Len(bits) THEN bits[10 * (i - 1) + t + 1] * 2^t ELSE 0)
       + LimbOf(bits, i, t + 1)

\* binary digits as limbs
Pack(bits) == [i \in 1..((Len(bits) + 9) \div 10) |-> LimbOf(bits, i, 0)]

\* a float64 keeps 53 significant binary digits: round to nearest, ties to even
RoundBits(m) ==
  LET n == BitLen(m)
      k == n - MantissaBits
  IN IF k <= 0 THEN [m |-> m, shift |-> 0]
     ELSE LET kept == BitsFrom(m, k + 1, n)
              half == BitAt(m, k) = 1
              sticky == \E j \in 1..(k - 1) : BitAt(m, j) = 1
              up == half /\ (sticky \/ kept[1] = 1)
          IN [m |-> Pack(IF up THEN Increment(kept) ELSE kept), shift |-> k]

\* float64(n) of a small int: exact
Float64Of(n) == [m |-> Limbs(n), e |-> 0]

\* the float64 constant 1.2: mantissa 0x13333333333333, exponent -52
Float12 ==
  [m |-> Pack([k \in 1..MantissaBits |-> IF k = MantissaBits \/ (k - 1) % 4 < 2 THEN 1 ELSE 0]),
   e |-> 0 - (MantissaBits - 1)]

\* x * y on float64
FMul(x, y) ==
  LET r == RoundBits(MulLimbs(x.m, y.m))
  IN [m |-> r.m, e |-> x.e + y.e + r.shift]

\* time.Duration(f): the float64 cut to a whole number of nanoseconds, as
\* binary digits, least significant first
TruncBits(x) ==
  LET n == BitLen(x.m)
  IN IF x.e >= 0 THEN [k \in 1..x.e |-> 0] \o BitsFrom(x.m, 1, n)
     ELSE IF 0 - x.e >= n THEN <<>>
     ELSE BitsFrom(x.m, 1 - x.e, n)

RECURSIVE DivMod(_, _, _, _)
\* long division of binary digits by d, from the most significant digit down
DivMod(a, d, q, r) ==
  IF a = <<>> THEN [q |-> q, r |-> r]
  ELSE LET r2 == 2 * r + a[Len(a)]
           rest == SubSeq(a, 1, Len(a) - 1)
       IN IF r2 >= d THEN DivMod(rest, d, 2 * q + 1, r2 - d)
          ELSE DivMod(rest, d, 2 * q, r2)

\* a number of nanoseconds as a duration
DurationOf(ns) ==
  LET x == DivMod(ns, NanosPerSecond, 0, 0) IN [sec |-> x.q, nsec |-> x.r]

\* the mutant: every planned call counts as remaining
RemainPlanned(pl, cm) == pl

\* remain := planned - completed; if remain < 0 { remain = 0 }
Remain(pl, cm) == IF pl - cm < 0 THEN 0 ELSE pl - cm

\* eta = time.Duration(float64(remain) * 1.2 * float64(time.Second))
Eta(pl, cm) ==
  DurationOf(TruncBits(FMul(FMul(Float64Of(Remain(pl, cm)), Float12),
                            Float64Of(NanosPerSecond))))

\* counters.AddPlanned(n): the loop announces the n calls it is about to make
AddPlanned ==
  /\ owed = 0
  /\ \E n \in 0..MaxBatch :
       /\ planned + n <= MaxPlanned
       /\ planned' = planned + n
       /\ owed' = n
  /\ UNCHANGED <<completed, snapshot, limVars, reqVars, balVars, rankVars, aggVars, combVars, webVars, cntVars, laneVars>>

\* one announced doRequestWithRetry call returns: RecordCompleted on a 200 or
\* a 404 response, nothing on an error or a skipped call
CallReturns ==
  /\ owed > 0
  /\ \E o \in Outcomes :
       /\ owed' = owed - 1
       /\ completed' = IF o \in {"ok", "notfound"} THEN completed + 1 ELSE completed
  /\ UNCHANGED <<planned, snapshot, limVars, reqVars, balVars, rankVars, aggVars, combVars, webVars, cntVars, laneVars>>

\* Counters.Snapshot(), called by the progress ticker at any moment
Snapshot ==
  /\ snapshot' = [taken |-> TRUE, planned |-> planned, completed |-> completed,
                  eta |-> Eta(planned, completed)]
  /\ UNCHANGED <<planned, completed, owed, limVars, reqVars, balVars, rankVars, aggVars, combVars, webVars, cntVars, laneVars>>

ProgInit ==
  /\ LimFrom(NewRiotLimiter)
  /\ ReqIdle
  /\ BalIdle
  /\ RankIdle
  /\ AggIdle
  /\ ProgIdle
  /\ LaneIdle
  /\ CntIdle
  /\ WebIdle
  /\ CombIdle

ProgNext == AddPlanned \/ CallReturns \/ Snapshot

SpecProgress == ProgInit /\ [][ProgNext]_vars

\* n * 1.2 seconds as a duration
ExactEstimate(n) ==
  [sec |-> (n * 12) \div 10, nsec |-> ((n * 12) % 10) * (NanosPerSecond \div 10)]

\* the duration one nanosecond before d (d > 0)
NanoBefore(d) ==
  IF d.nsec > 0 THEN [d EXCEPT !.nsec = @ - 1]
  ELSE [sec |-> d.sec - 1, nsec |-> NanosPerSecond - 1]

\* C28 as written: Snapshot reports (planned - completed) * 1.2 seconds, and
\* the estimate is never negative.
C28_Original ==
  snapshot.taken =>
    /\ snapshot.eta = ExactEstimate(snapshot.planned - snapshot.completed)
    /\ snapshot.eta.sec >= 0 /\ snapshot.eta.nsec >= 0

\* C28 amended: completed never exceeds planned, and Snapshot reports the
\* float64 product (planned - completed) * 1.2 * 1e9 cut to whole
\* nanoseconds: never negative, never above (planned - completed) * 1.2
\* seconds and at most one nanosecond below it, equal to it when the number
\* of outstanding calls is a multiple of 5.
C28_Estimate ==
  /\ completed <= planned
  /\ snapshot.taken =>
       LET n == snapshot.planned - snapshot.completed
           exact == ExactEstimate(n)
       IN /\ n >= 0
          /\ snapshot.eta.sec >= 0 /\ snapshot.eta.nsec >= 0
          /\ \/ snapshot.eta = exact
             \/ n % 5 # 0 /\ snapshot.eta = NanoBefore(exact)

\* a snapshot with three calls outstanding: 3.599999999 s
C28_Witness ==
  /\ snapshot.taken
  /\ snapshot.planned - snapshot.completed = 3
  /\ snapshot.completed > 0
  /\ snapshot.eta = [sec |-> 3, nsec |-> 599999999]

\* the failures of this call that went to the bounded-retry tail (5xx
\* responses, transport errors, other statuses), the latest one included
FailuresSoFar == seen.nBackoff + (IF rpc = "done" /\ result.kind = "err" THEN 1 ELSE 0)

\* C30 as written: attempts that ended in a 429 do not use up the retry
\* budget: without SKIP, the call gives up with the exhausted-retries error
\* only when maxRetry transient failures have occurred in it; before that a
\* 5xx response or transport failure is retried with backoff.
C30_Original ==
  (~skipOnLimit /\ rpc = "done" /\ result.kind = "err") => FailuresSoFar >= maxRetry

(***************************************************************************)
(* Termination of doRequestWithRetry (SpecRetryFair).  The loop has no     *)
(* bound of its own, so the iterations past the MaxTries-th are kept: the  *)
(* body is the same, but the model no longer counts.  tries = MaxTries     *)
(* then stands for "MaxTries or more", which decides tries >= maxRetry     *)
(* alike for every maxRetry <= MaxTries; the clock, the counters and the   *)
(* limiter windows stay as they were.                                      *)
(***************************************************************************)
\* one iteration of the loop after MaxTries attempts, client.Do returning r
ReqBeyond ==
  \E r \in {NetErr} \cup {Resp(st, NoHeader) : st \in {200, 404} \cup ServerErrors \cup OtherStatuses}
             \cup {Resp(429, h) : h \in Headers} :
    /\ rpc = "loop"
    /\ tries = MaxTries
    /\ lastResp' = r
    /\ lastStatus' = IF r.isResp THEN r.status ELSE lastStatus
    /\ seen' = IF IsStatus(r, {200, 404}) THEN seen
               ELSE IF IsStatus(r, {429}) THEN Seen("r429")
               ELSE IF IsStatus(r, OtherStatuses) THEN Seen("other")
               ELSE Seen("transient")
    /\ IF IsStatus(r, {200, 404})
         THEN /\ rpc' = "done"
              /\ result' = [kind |-> "resp", status |-> r.status]
              /\ lastSleep' = [kind |-> "none", dur |-> 0]
              /\ UNCHANGED backoff
       ELSE IF skipOnLimit
         THEN /\ rpc' = "done"
              /\ result' = [kind |-> "nil", status |-> 0]
              /\ lastSleep' = [kind |-> "none", dur |-> 0]
              /\ UNCHANGED backoff
       ELSE IF IsStatus(r, {429})
         THEN /\ rpc' = "loop"
              /\ lastSleep' = [kind |-> "rate", dur |-> RateLimitWait(r.hdr)]
              /\ UNCHANGED <<result, backoff>>
       ELSE IF Exhausted(maxRetry, tries)
         THEN /\ rpc' = "done"
              /\ result' = [kind |-> "err", status |-> lastStatus']
              /\ lastSleep' = [kind |-> "none", dur |-> 0]
              /\ UNCHANGED backoff
       ELSE /\ rpc' = "loop"
            /\ lastSleep' = [kind |-> "backoff", dur |-> backoff]
            /\ backoff' = NextBackoff(backoff)
            /\ UNCHANGED result
    /\ UNCHANGED <<limVars, skipOnLimit, maxRetry, tries, counters, balVars, rankVars, aggVars, progVars, combVars, webVars, cntVars, laneVars>>

ReqFairNext ==
  \/ ReqNext
  \/ ReqBeyond

\* every attempt is answered and every sleep ends: the goroutine in the loop
\* keeps taking steps
SpecRetryFair == ReqInit /\ [][ReqFairNext]_vars /\ WF_vars(ReqFairNext)

\* the call is in its loop and its latest attempt was answered with a 429
RateLimitedAgain == rpc = "loop" /\ IsStatus(lastResp, {429})

\* C29 as written: with maxAttempts > 0 the call eventually returns a result
\* or an error, for every sequence of upstream responses and transport
\* failures.
C29_Original == (maxRetry > 0) => <>(rpc = "done")

\* C29 amended: with maxAttempts > 0 the call eventually returns unless it is
\* answered with 429 again and again without end; once maxAttempts attempts
\* were made, only a 429 response keeps the call in its loop; and in
\* best-effort mode the call returns after its first attempt.
C29_ReturnsUnlessRateLimited ==
  /\ (maxRetry > 0) => (<>(rpc = "done") \/ []<>RateLimitedAgain)
  /\ []((maxRetry > 0 /\ rpc = "loop" /\ tries >= maxRetry) => IsStatus(lastResp, {429}))
  /\ []((skipOnLimit /\ tries >= 1) => (rpc = "done" /\ tries = 1))

\* C29 witness: maxAttempts = 3, best-effort mode off; two 429 responses were
\* waited out, the third attempt failed in transit, and the call returned
\* the exhausted-retries error.
C29_Witness ==
  /\ ~skipOnLimit
  /\ maxRetry = 3
  /\ counters.retries = 2
  /\ tries = 3
  /\ ~lastResp.isResp
  /\ rpc = "done"
  /\ result.kind = "err"

(***************************************************************************)
(* The best-effort flag (SKIP=true) and the bounded retries (SpecRetry).   *)
(***************************************************************************)
\* the latest attempt ended in a 5xx response or in a transport failure
LatestTransient == tries >= 1 /\ (~lastResp.isResp \/ IsStatus(lastResp, ServerErrors))

Unaccounted == now - (counters.waitRL + counters.wait429)

\* C32 as written: the 429 wait total is the sum of the sleeps taken after
\* 429 responses and nothing else, and the backoff sleeps taken after 5xx
\* responses and transport failures are held by a total of their own, so that
\* the totals together account for the time slept.
C32_Original ==
  /\ counters.wait429 = seen.rateSlept
  /\ Unaccounted = 0

(***************************************************************************)
(* comb, the recursive enumeration of the lane-unique split, call by call  *)
(* (SpecComb).  A frame holds the arguments arr, n and acc of one call and *)
(* how far its body has got.                                               *)
(***************************************************************************)
\* indices := []int{0,1,2,3,4,5,6,7,8,9}
indices == [i \in 1..LaneRoster |-> i - 1]

SeqRange(s) == {s[i] : i \in DOMAIN s}

Frame(arr, n, acc) == [arr |-> arr, n |-> n, acc |-> acc, at |-> "entry"]

Top == callStack[Len(callStack)]

Running == fault = "" /\ callStack # <<>>

Pop == SubSeq(callStack, 1, Len(callStack) - 1)

\* the callee's frame pushed, the caller's frame left at position `at`
Call(at, callee) == Append([callStack EXCEPT ![Len(callStack)].at = at], callee)

\* for _, idx := range arr { inA := ...; if !inA { bestB = append(bestB, idx) } }
NotInAcc(arr, acc) ==
  LET outside(idx) == idx \notin SeqRange(acc) IN SelectSeq(arr, outside)

\* if len(acc) == 5 { ...; return }: the candidate acc is evaluated against the
\* members of arr that are not in acc
CombLeaf ==
  /\ Running
  /\ Top.at = "entry"
  /\ Len(Top.acc) = LaneTeam
  /\ leafSeen' = [acc |-> Top.acc, arr |-> Top.arr, teamB |-> NotInAcc(Top.arr, Top.acc)]
  /\ visited' = Append(visited, Top.acc)
  /\ callStack' = Pop
  /\ UNCHANGED <<guarded, fault, limVars, reqVars, balVars, rankVars, aggVars, progVars, webVars, cntVars, laneVars>>

\* if n == 0 { return }; if len(arr) == 0 { return } (the second test only in
\* the guarded versions)
CombCutoff ==
  /\ Running
  /\ Top.at = "entry"
  /\ Len(Top.acc) # LaneTeam
  /\ Top.n = 0 \/ (guarded /\ Top.arr = <<>>)
  /\ callStack' = Pop
  /\ UNCHANGED <<guarded, visited, leafSeen, fault, limVars, reqVars, balVars, rankVars, aggVars, progVars, webVars, cntVars, laneVars>>

\* arr[1:] of an empty arr: panic, slice bounds out of range [1:0]
CombFault ==
  /\ Running
  /\ Top.at = "entry"
  /\ Len(Top.acc) # LaneTeam
  /\ Top.n # 0
  /\ ~guarded
  /\ Top.arr = <<>>
  /\ fault' = "slice bounds out of range"
  /\ UNCHANGED <<guarded, callStack, visited, leafSeen, limVars, reqVars, balVars, rankVars, aggVars, progVars, webVars, cntVars, laneVars>>

\* comb(arr[1:], n-1, append(acc, arr[0]))
CombTake ==
  /\ Running
  /\ Top.at = "entry"
  /\ Len(Top.acc) # LaneTeam
  /\ Top.n # 0
  /\ Top.arr # <<>>
  /\ callStack' = Call("first", Frame(Tail(Top.arr), Top.n - 1, Append(Top.acc, Head(Top.arr))))
  /\ UNCHANGED <<guarded, visited, leafSeen, fault, limVars, reqVars, balVars, rankVars, aggVars, progVars, webVars, cntVars, laneVars>>

\* comb(arr[1:], n, acc)
CombSkip ==
  /\ Running
  /\ Top.at = "first"
  /\ callStack' = Call("second", Frame(Tail(Top.arr), Top.n, Top.acc))
  /\ UNCHANGED <<guarded, visited, leafSeen, fault, limVars, reqVars, balVars, rankVars, aggVars, progVars, webVars, cntVars, laneVars>>

\* the end of the body
CombReturn ==
  /\ Running
  /\ Top.at = "second"
  /\ callStack' = Pop
  /\ UNCHANGED <<guarded, visited, leafSeen, fault, limVars, reqVars, balVars, rankVars, aggVars, progVars, webVars, cntVars, laneVars>>

\* comb(indices, 5, []int{}) on a roster of ten, in either version of the body
CombInit ==
  /\ LimFrom(NewRiotLimiter)
  /\ ReqIdle
  /\ BalIdle
  /\ RankIdle
  /\ AggIdle
  /\ ProgIdle
  /\ LaneIdle
  /\ CntIdle
  /\ WebIdle
  /\ guarded \in BOOLEAN
  /\ callStack = <<Frame(indices, LaneTeam, <<>>)>>
  /\ visited = <<>>
  /\ leafSeen = NoLeaf
  /\ fault = ""

CombNext ==
  \/ CombLeaf
  \/ CombCutoff
  \/ CombFault
  \/ CombTake
  \/ CombSkip
  \/ CombReturn

SpecComb == CombInit /\ [][CombNext]_vars

\* C33 as written: every candidate pairs its team A of five with the team B
\* made of exactly the other five players of the roster.
C33_Original ==
  (leafSeen # NoLeaf) =>
    /\ Len(leafSeen.acc) = LaneTeam
    /\ Len(leafSeen.teamB) = LaneTeam
    /\ SeqRange(leafSeen.teamB) = SeqRange(indices) \ SeqRange(leafSeen.acc)

\* the five-player subsets of the ten indices
FiveSubsets == {S \in SUBSET SeqRange(indices) : Cardinality(S) = LaneTeam}

\* C34 as written: comb ends without a runtime fault, no five-player subset
\* is evaluated twice, and when comb has returned each of the 252 subsets
\* has been evaluated as team A.
C34_Original ==
  /\ fault = ""
  /\ \A k \in 1..(Len(visited) - 1) : SeqRange(visited[k]) # SeqRange(visited[Len(visited)])
  /\ callStack = <<>> =>
       /\ Len(visited) = 252
       /\ {SeqRange(visited[k]) : k \in DOMAIN visited} = FiveSubsets

(***************************************************************************)
(* The /analyze handler of the web service (SpecWeb): one goroutine per    *)
(* request; the handler closure shares main's matchLimit; every analyze    *)
(* call makes a RiotLimiter of its own.  An upstream call takes no time;   *)
(* time passes while the calls that are still running sleep.               *)
(***************************************************************************)
\* the values of MATCH_LIMIT main accepts (n > 0), and 10 when it is unset
ConfiguredLimits == {DefaultMatchLimit, 3}

\* req.MatchLimit: 0 when the body has no matchLimit
SuppliedLimits == {0, 5}

\* var req analyzeRequest; json.NewDecoder(r.Body).Decode(&req);
\* if req.MatchLimit > 0 { matchLimit = req.MatchLimit }
HandlerDecode(r) ==
  /\ hpc[r] = "arrived"
  /\ hpc' = [hpc EXCEPT ![r] = "decoded"]
  /\ serverLimit' = IF supplied[r] > 0 THEN supplied[r] ELSE serverLimit
  /\ UNCHANGED <<configured, supplied, passed, wlim, wwake, wcalls, wnow, upstream,
                 limVars, reqVars, balVars, rankVars, aggVars, progVars, combVars, cntVars, laneVars>>

\* result, err := analyze(ctx, apiKey, req.Players, matchLimit), which begins
\* with limiter := &RiotLimiter{}
HandlerAnalyze(r) ==
  /\ hpc[r] = "decoded"
  /\ hpc' = [hpc EXCEPT ![r] = "wait"]
  /\ passed' = [passed EXCEPT ![r] = serverLimit]
  /\ wlim' = [wlim EXCEPT ![r] = EmptyLimiter]
  /\ UNCHANGED <<configured, serverLimit, supplied, wwake, wcalls, wnow, upstream,
                 limVars, reqVars, balVars, rankVars, aggVars, progVars, combVars, cntVars, laneVars>>

\* one iteration of limiter.Wait() inside doRequestWithRetry: both windows
\* pruned; under the caps the time is appended, Wait returns and client.Do
\* sends the upstream request; over a cap the goroutine sleeps
WebWait(r) ==
  /\ hpc[r] = "wait"
  /\ wcalls[r] < MaxWebCalls
  /\ LET sw == Prune(wlim[r].secWin, wnow - SecWindow)
         tm == Prune(wlim[r].twoMin, wnow - TwoMinWindow)
     IN IF Allowed(sw, tm)
          THEN /\ wlim' = [wlim EXCEPT ![r] = [secWin |-> Append(sw, wnow), twoMin |-> Append(tm, wnow)]]
               /\ upstream' = Append(upstream, wnow)
               /\ wcalls' = [wcalls EXCEPT ![r] = @ + 1]
               /\ UNCHANGED <<hpc, wwake>>
          ELSE /\ wlim' = [wlim EXCEPT ![r] = [secWin |-> sw, twoMin |-> tm]]
               /\ hpc' = [hpc EXCEPT ![r] = "sleep"]
               /\ wwake' = [wwake EXCEPT ![r] = wnow + SleepFor(sw, tm, wnow)]
               /\ UNCHANGED <<upstream, wcalls>>
  /\ UNCHANGED <<configured, serverLimit, supplied, passed, wnow,
                 limVars, reqVars, balVars, rankVars, aggVars, progVars, combVars, cntVars, laneVars>>

\* time.Sleep(sleepFor) returns
WebWake(r) ==
  /\ hpc[r] = "sleep"
  /\ wnow >= wwake[r]
  /\ hpc' = [hpc EXCEPT ![r] = "wait"]
  /\ UNCHANGED <<configured, serverLimit, supplied, passed, wlim, wwake, wcalls, wnow, upstream,
                 limVars, reqVars, balVars, rankVars, aggVars, progVars, combVars, cntVars, laneVars>>

\* analyze returns and the handler writes its response
HandlerDone(r) ==
  /\ hpc[r] = "wait"
  /\ hpc' = [hpc EXCEPT ![r] = "done"]
  /\ UNCHANGED <<configured, serverLimit, supplied, passed, wlim, wwake, wcalls, wnow, upstream,
                 limVars, reqVars, balVars, rankVars, aggVars, progVars, combVars, cntVars, laneVars>>

\* the clock moves on to the earliest wake-up time once no analyze call has
\* an upstream call left to make now
WebTick ==
  /\ \A r \in Requests : hpc[r] = "wait" => wcalls[r] = MaxWebCalls
  /\ \E r \in Requests :
       /\ hpc[r] = "sleep"
       /\ wwake[r] > wnow
       /\ \A o \in Requests : hpc[o] = "sleep" => wwake[r] <= wwake[o]
       /\ wnow' = wwake[r]
  /\ UNCHANGED <<configured, serverLimit, supplied, passed, hpc, wlim, wwake, wcalls, upstream,
                 limVars, reqVars, balVars, rankVars, aggVars, progVars, combVars, cntVars, laneVars>>

\* the server has started and NumRequests requests have arrived; each is
\* handled when its goroutine runs, one after the other or at the same time
WebInit ==
  /\ LimFrom(NewRiotLimiter)
  /\ ReqIdle
  /\ BalIdle
  /\ RankIdle
  /\ AggIdle
  /\ ProgIdle
  /\ LaneIdle
  /\ CntIdle
  /\ CombIdle
  /\ configured \in ConfiguredLimits
  /\ serverLimit = configured
  /\ supplied \in [Requests -> SuppliedLimits]
  /\ passed = [r \in Requests |-> 0]
  /\ hpc = [r \in Requests |-> "arrived"]
  /\ wlim = [r \in Requests |-> EmptyLimiter]
  /\ wwake = [r \in Requests |-> 0]
  /\ wcalls = [r \in Requests |-> 0]
  /\ wnow = 0
  /\ upstream = <<>>

WebNext ==
  \/ \E r \in Requests : HandlerDecode(r)
  \/ \E r \in Requests : HandlerAnalyze(r)
  \/ \E r \in Requests : WebWait(r)
  \/ \E r \in Requests : WebWake(r)
  \/ \E r \in Requests : HandlerDone(r)
  \/ WebTick

SpecWeb == WebInit /\ [][WebNext]_vars

\* upstream requests sent inside the closed window [a, a + w]
SentIn(a, w) == Cardinality({i \in DOMAIN upstream : upstream[i] >= a /\ upstream[i] <= a + w})

\* C35 as written: the upstream requests of all /analyze requests together
\* stay within 20 per second and 100 per 120 seconds.
C35_Original ==
  \A i \in DOMAIN upstream :
    /\ SentIn(upstream[i], SecWindow) <= SecCap
    /\ SentIn(upstream[i], TwoMinWindow) <= TwoMinCap

\* C38 as written: a request that supplies no matchLimit is analysed with the
\* configured default, whatever the other requests supplied.
C38_Original ==
  \A r \in Requests : (passed[r] # 0 /\ supplied[r] = 0) => passed[r] = configured

(***************************************************************************)
(* Counters read by the progress ticker while the collecting goroutine     *)
(* updates them (SpecCounters).  Every method locks Counters.mu; Snapshot  *)
(* assigns its results one after the other while it holds the lock.        *)
(***************************************************************************)
CountersFreeIgnored == TRUE

\* c.mu.Lock() returns only while no goroutine is inside a method
CountersFree == cmu = ""

\* what the collector does after a call has returned
AfterCall(left) == IF left > 0 THEN "attempt" ELSE "plan"

\* counters.AddPlanned(n) ahead of the n calls of a stage
CntAddPlanned ==
  /\ cpc = "plan"
  /\ CountersFree
  /\ \E n \in 1..MaxCntPlanned :
       /\ cnt.planned + n <= MaxCntPlanned
       /\ cnt' = [cnt EXCEPT !.planned = @ + n]
       /\ cowed' = n
  /\ cpc' = "attempt"
  /\ UNCHANGED <<cmu, tpc, snap, limVars, reqVars, balVars, rankVars, aggVars, progVars, combVars, webVars, laneVars>>

\* counters.RecordAttempt(), then client.Do
RecordAttempt ==
  /\ cpc = "attempt"
  /\ CountersFree
  /\ cnt.attempts < MaxAttempts
  /\ cnt' = [cnt EXCEPT !.attempts = @ + 1]
  /\ cpc' = "answer"
  /\ UNCHANGED <<cmu, cowed, tpc, snap, limVars, reqVars, balVars, rankVars, aggVars, progVars, combVars, webVars, laneVars>>

\* a 200 or 404 response: counters.RecordCompleted(); return resp, nil
RecordCompleted ==
  /\ cpc = "answer"
  /\ CountersFree
  /\ cnt' = [cnt EXCEPT !.completed = @ + 1]
  /\ cowed' = cowed - 1
  /\ cpc' = AfterCall(cowed')
  /\ UNCHANGED <<cmu, tpc, snap, limVars, reqVars, balVars, rankVars, aggVars, progVars, combVars, webVars, laneVars>>

\* a 429 response: counters.RecordRetry(); then the next attempt, or with
\* SKIP=true the return of nil, nil
RecordRetry ==
  /\ cpc = "answer"
  /\ CountersFree
  /\ cnt' = [cnt EXCEPT !.retries = @ + 1]
  /\ \E skip \in BOOLEAN :
       IF skip THEN cowed' = cowed - 1 /\ cpc' = AfterCall(cowed')
       ELSE cpc' = "attempt" /\ UNCHANGED cowed
  /\ UNCHANGED <<cmu, tpc, snap, limVars, reqVars, balVars, rankVars, aggVars, progVars, combVars, webVars, laneVars>>

\* a 5xx or other response, or a transport error: no counter is touched; the
\* next attempt follows, or the call returns (nil, nil or the error)
AttemptFailed ==
  /\ cpc = "answer"
  /\ \E again \in BOOLEAN :
       IF again THEN cpc' = "attempt" /\ UNCHANGED cowed
       ELSE cowed' = cowed - 1 /\ cpc' = AfterCall(cowed')
  /\ UNCHANGED <<cmu, cnt, tpc, snap, limVars, reqVars, balVars, rankVars, aggVars, progVars, combVars, webVars, laneVars>>

\* case <-ticker.C: PrintEstimate calls c.Snapshot(): c.mu.Lock()
SnapshotLock ==
  /\ tpc = "idle"
  /\ CountersFree
  /\ cmu' = "ticker"
  /\ tpc' = "planned"
  /\ snap' = [taken |-> FALSE, n |-> NoCounts]
  /\ UNCHANGED <<cnt, cpc, cowed, limVars, reqVars, balVars, rankVars, aggVars, progVars, combVars, webVars, laneVars>>

\* the field Snapshot reads after field f
FieldAfter ==
  [planned |-> "attempts", attempts |-> "completed", completed |-> "retries", retries |-> "return"]

\* planned = c.planned; attempts = c.attempts; completed = c.completed;
\* retries = c.retries: one assignment
SnapshotRead ==
  /\ tpc \in DOMAIN FieldAfter
  /\ snap' = [snap EXCEPT !.n[tpc] = cnt[tpc]]
  /\ tpc' = FieldAfter[tpc]
  /\ UNCHANGED <<cmu, cnt, cpc, cowed, limVars, reqVars, balVars, rankVars, aggVars, progVars, combVars, webVars, laneVars>>

\* return, and the deferred c.mu.Unlock()
SnapshotReturn ==
  /\ tpc = "return"
  /\ snap' = [snap EXCEPT !.taken = TRUE]
  /\ cmu' = ""
  /\ tpc' = "idle"
  /\ UNCHANGED <<cnt, cpc, cowed, limVars, reqVars, balVars, rankVars, aggVars, progVars, combVars, webVars, laneVars>>

CntInit ==
  /\ LimFrom(NewRiotLimiter)
  /\ ReqIdle
  /\ BalIdle
  /\ RankIdle
  /\ AggIdle
  /\ ProgIdle
  /\ LaneIdle
  /\ CombIdle
  /\ WebIdle
  /\ CntIdle

CntNext ==
  \/ CntAddPlanned
  \/ RecordAttempt
  \/ RecordCompleted
  \/ RecordRetry
  \/ AttemptFailed
  \/ SnapshotLock
  \/ SnapshotRead
  \/ SnapshotReturn

SpecCounters == CntInit /\ [][CntNext]_vars

CountFields == {"planned", "attempts", "completed", "retries"}

\* C36: whatever Snapshot returns, also while the collector is between two
\* updates of a call, satisfies completed + retries <= attempts and
\* completed <= planned and is the state of the counters at one moment; and
\* none of planned, attempts, completed and retries ever decreases.
C36_SnapshotConsistent ==
  /\ [](snap.taken =>
          /\ snap.n.completed + snap.n.retries <= snap.n.attempts
          /\ snap.n.completed <= snap.n.planned)
  /\ [](tpc = "return" => snap.n = cnt)
  /\ [][\A f \in CountFields : cnt'[f] >= cnt[f]]_vars

\* C36 witness: a snapshot was taken while a call was between its attempt
\* and its answer, after a retry and a completion.
C36_Witness ==
  /\ snap.taken
  /\ cpc = "answer"
  /\ snap.n.retries >= 1
  /\ snap.n.completed >= 1
  /\ snap.n.attempts = snap.n.completed + snap.n.retries + 1

(***************************************************************************)
(* The number of matches sampled for a player (SpecAggregate).             *)
(***************************************************************************)
\* the match list of the current player was answered and its sample size set
SampleSet == apc \in {"detail", "rank"} /\ hist.account = "ok" /\ ~hist.failed

\* min(requested sample size, number of match ids), all ids when the
\* requested size is <= 0
SampleSize(req, n) == IF req <= 0 \/ req > n THEN n ELSE req

\* C37 as written: in analyze the number of matches sampled for a player is
\* min(requested size, number of that player's match ids), whatever players
\* came before.
C37_Original ==
  (~cli /\ SampleSet) => loc.maxMatches = SampleSize(requested, hist.ids)

(***************************************************************************)
(* The extraction of main and secondary lanes from laneCount, run NumRuns  *)
(* times over the same tallies (SpecLanes).                                *)
(***************************************************************************)
RECURSIVE KeyOrders(_)
\* for k, v := range laneCount: the keys of the map come in an order the
\* runtime chooses anew for every range statement
KeyOrders(S) ==
  IF S = {} THEN {<<>>}
  ELSE UNION {{<<k>> \o rest : rest \in KeyOrders(S \ {k})} : k \in S}

\* the keys of laneCount: the lanes that were incremented at least once
KeysOf(m) == {k \in DOMAIN m : m[k] > 0}

\* one pass of the insertion sort sort.Slice uses for short slices: x moves
\* left while less(x, left neighbour), that is while its count is greater
InsertByCount(sorted, x, m) ==
  LET behind == {i \in DOMAIN sorted : \A j \in i..Len(sorted) : m[x] > m[sorted[j]]}
      at == IF behind = {} THEN Len(sorted) + 1 ELSE CHOOSE i \in behind : \A j \in behind : i <= j
  IN SubSeq(sorted, 1, at - 1) \o <<x>> \o SubSeq(sorted, at, Len(sorted))

\* sort.Slice(laneStats, func(i, j int) bool { return laneStats[i].Count > laneStats[j].Count })
SortByCount(stats, m) ==
  LET F[k \in 0..Len(stats)] == IF k = 0 THEN <<>> ELSE InsertByCount(F[k - 1], stats[k], m)
  IN F[Len(stats)]

\* mainLanes: laneStats[0..1]; subLanes: laneStats[2..3]
MainAndSubLanes(stats) ==
  [main |-> SubSeq(stats, 1, Min(2, Len(stats))),
   sub  |-> SubSeq(stats, 3, Min(4, Len(stats)))]

\* one run of the extraction over the tallies
ExtractLanes ==
  /\ Len(laneRuns) < NumRuns
  /\ \E order \in KeyOrders(KeysOf(laneTally)) :
       laneRuns' = Append(laneRuns, MainAndSubLanes(SortByCount(order, laneTally)))
  /\ UNCHANGED <<laneTally, limVars, reqVars, balVars, rankVars, aggVars, progVars, combVars, webVars, cntVars>>

LaneInit ==
  /\ LimFrom(NewRiotLimiter)
  /\ ReqIdle
  /\ BalIdle
  /\ RankIdle
  /\ AggIdle
  /\ ProgIdle
  /\ CombIdle
  /\ WebIdle
  /\ CntIdle
  /\ laneTally \in [LaneKinds -> 0..MaxLaneCount]
  /\ laneRuns = <<>>

LaneNext == ExtractLanes

SpecLanes == LaneInit /\ [][LaneNext]_vars

\* C39 as written: two runs over identical raw records give the same main
\* lanes (top 2 by frequency) and the same secondary lanes (next 2), also
\* when several lanes have equal frequency.
C39_Original ==
  \A i \in DOMAIN laneRuns : \A j \in DOMAIN laneRuns : laneRuns[i] = laneRuns[j]

====
